---- MODULE Spec2Model ----
(***************************************************************************)
(* A model of the musil interpreter (src/src/musil.h): the Atom heap, the  *)
(* environment frames, the reader and printer, and the eval loop with its  *)
(* special forms, closures, macros and the Later scheduler.                *)
(*                                                                         *)
(* Atoms live in `heap`, a sequence of records; an AtomPtr is an index     *)
(* into it and NULL (0) is the null pointer.  Source indices are 0-based:  *)
(* at(a, i) is a->tail.at (i).  A lexeme is a sequence of one-character    *)
(* strings.  Real is restricted to the integers.                           *)
(***************************************************************************)
EXTENDS Integers, Sequences, FiniteSets, TLC

VARIABLES
    heap,      \* the Atoms allocated so far (make_shared<Atom>)
    envs,      \* SpecEnv: the environment frames created so far
    last,      \* the last environment operation: its arguments, its result
               \* and the heap it started from
    rt,        \* SpecRT: a value, the text print wrote for it, and the
               \* value read back from that text
    cin,       \* the input stream of repl
    linenum,   \* repl's line counter
    threads,   \* the main thread and the threads Later detached: for each,
               \* its live activations of eval (bottom first) and the value
               \* the last nested eval returned
    out,       \* what repl printed: one entry per form evaluated
    aborted,   \* the process was killed: std::terminate was called, or it
               \* crashed
    log        \* history: the activations entered and left, in order

vars == <<heap, envs, last, rt, cin, linenum, threads, out, aborted, log>>

\* the state of the interpreter proper
evalVars == <<cin, linenum, threads, out, aborted, log>>

\* what the environment operations of SpecEnv leave alone
notEnv == <<rt, evalVars>>

NULL == 0

\* The value of a member the constructor leaves uninitialised (Atom::op and
\* Atom::minargs of every atom that is not an OP).  It is whatever the
\* storage held.  The address of a sentinel functor is stored only in the
\* OP atoms that make_env binds: while none of them has been released,
\* recycled storage cannot hold such an address, and the value is
\* Indeterminate, which differs from every functor.  Uninitialised gives the
\* values after a sentinel binding was overwritten.
Indeterminate == "indeterminate"

NoError == ""

----------------------------------------------------------------------------
(* Atom and its constructors *)

make_atom ==
    [type |-> "LIST", lexeme |-> <<>>, array |-> <<>>, op |-> Indeterminate,
     minargs |-> Indeterminate, tail |-> <<>>]

is_string(l) == Len(l) > 1 /\ l[1] = "\""

Atom_lex(lex) ==
    IF is_string(lex)
    THEN [make_atom EXCEPT !.type = "STRING", !.lexeme = SubSeq(lex, 2, Len(lex))]
    ELSE [make_atom EXCEPT !.type = "SYMBOL", !.lexeme = lex]

Atom_real(val) == [make_atom EXCEPT !.type = "ARRAY", !.array = <<val>>]

Atom_array(a) == [make_atom EXCEPT !.type = "ARRAY", !.array = a]

Atom_lambda(vars_, body, env) ==
    [make_atom EXCEPT !.type = "LAMBDA", !.tail = <<vars_, body, env>>]

Atom_op(f, lexeme, minargs) ==
    [make_atom EXCEPT !.type = "OP", !.op = f, !.lexeme = lexeme, !.minargs = minargs]

\* a->tail.at (i)
at(a, i) == a.tail[i + 1]

\* The result of a call: the heap after it, the returned AtomPtr, and the
\* message of the exception it threw (NoError when it returned).
Ret(h, v) == [h |-> h, v |-> v, err |-> NoError]

Throw(h, msg) == [h |-> h, v |-> NULL, err |-> msg]

\* make_shared<Atom>: a fresh atom at the end of the heap.
Alloc(h, a) == Ret(Append(h, a), Len(h) + 1)

is_nil(h, e) == e = NULL \/ (h[e].type = "LIST" /\ Len(h[e].tail) = 0)

----------------------------------------------------------------------------
(* Equality *)

RECURSIVE atom_eq(_, _, _)
atom_eq(h, a, b) ==
    IF is_nil(h, a) /\ ~is_nil(h, b) THEN FALSE
    ELSE IF ~is_nil(h, a) /\ is_nil(h, b) THEN FALSE
    ELSE IF is_nil(h, a) /\ is_nil(h, b) THEN TRUE
    ELSE IF h[a].type # h[b].type THEN FALSE
    ELSE CASE h[a].type = "LIST" ->
                 /\ Len(h[a].tail) = Len(h[b].tail)
                 /\ \A i \in 1..Len(h[a].tail) : atom_eq(h, h[a].tail[i], h[b].tail[i])
           [] h[a].type \in {"SYMBOL", "STRING"} -> h[a].lexeme = h[b].lexeme
           [] h[a].type = "ARRAY" ->
                 \* |a - b| < 1e-6 elementwise; on integers, equal elements
                 /\ Len(h[a].array) = Len(h[b].array)
                 /\ \A i \in 1..Len(h[a].array) : h[a].array[i] = h[b].array[i]
           [] h[a].type \in {"LAMBDA", "MACRO"} ->
                 /\ at(h[a], 0) = at(h[b], 0)
                 /\ at(h[a], 1) = at(h[b], 1)
           [] h[a].type = "OP" -> h[a].op = h[b].op

----------------------------------------------------------------------------
(* Environment: tail.at (0) is the parent frame, the rest are the bindings *)
(* (symbol value).                                                         *)

\* The index (0-based, as in the source) of the first binding of env that
\* atom_eq matches with node, or 0 when there is none.
FirstMatch(h, node, env) ==
    LET hits == {i \in 1..(Len(h[env].tail) - 1) :
                    atom_eq(h, node, at(h[at(h[env], i)], 0))}
    IN  IF hits = {} THEN 0 ELSE CHOOSE i \in hits : \A j \in hits : i <= j

\* assoc looking in the parent chain before the current frame.
RECURSIVE assoc_parent_first(_, _, _)
assoc_parent_first(h, node, env) ==
    LET i == FirstMatch(h, node, env)
        up == IF is_nil(h, at(h[env], 0)) THEN Throw(h, "unbound identifier")
              ELSE assoc_parent_first(h, node, at(h[env], 0))
    IN  IF up.err = NoError THEN up
        ELSE IF i # 0 THEN Ret(h, at(h[at(h[env], i)], 1))
        ELSE Throw(h, "unbound identifier")

RECURSIVE assoc(_, _, _)
assoc(h, node, env) ==
    LET i == FirstMatch(h, node, env)
    IN  IF i # 0 THEN Ret(h, at(h[at(h[env], i)], 1))
        ELSE IF ~is_nil(h, at(h[env], 0)) THEN assoc(h, node, at(h[env], 0))
        ELSE Throw(h, "unbound identifier")

\* extend without the scan of the current frame when defining.
RECURSIVE extend_no_overwrite(_, _, _, _, _)
extend_no_overwrite(h, node, val, env, recurse) ==
    LET i == FirstMatch(h, node, env)
    IN  IF recurse
        THEN IF i # 0 THEN Ret([h EXCEPT ![at(h[env], i)].tail[2] = val], val)
             ELSE IF ~is_nil(h, at(h[env], 0))
             THEN extend_no_overwrite(h, node, val, at(h[env], 0), recurse)
             ELSE Throw(h, "unbound identifier")
        ELSE LET vv == Alloc(h, [make_atom EXCEPT !.tail = <<node, val>>])
             IN  Ret([vv.h EXCEPT ![env].tail = Append(@, vv.v)], val)

\* extend that defines the symbol in the root frame when an assignment
\* finds it nowhere.
RECURSIVE extend_set_defines(_, _, _, _, _)
extend_set_defines(h, node, val, env, recurse) ==
    LET i == FirstMatch(h, node, env)
    IN  IF i # 0
        THEN Ret([h EXCEPT ![at(h[env], i)].tail[2] = val], val)
        ELSE IF recurse /\ ~is_nil(h, at(h[env], 0))
        THEN extend_set_defines(h, node, val, at(h[env], 0), recurse)
        ELSE LET vv == Alloc(h, [make_atom EXCEPT !.tail = <<node, val>>])
             IN  Ret([vv.h EXCEPT ![env].tail = Append(@, vv.v)], val)

RECURSIVE extend(_, _, _, _, _)
extend(h, node, val, env, recurse) ==
    LET i == FirstMatch(h, node, env)
    IN  IF i # 0
        THEN Ret([h EXCEPT ![at(h[env], i)].tail[2] = val], val)
        ELSE IF recurse
        THEN IF ~is_nil(h, at(h[env], 0))
             THEN extend(h, node, val, at(h[env], 0), recurse)
             ELSE Throw(h, "unbound identifier")
        ELSE LET vv == Alloc(h, [make_atom EXCEPT !.tail = <<node, val>>])
             IN  Ret([vv.h EXCEPT ![env].tail = Append(@, vv.v)], val)

\* musil.h 323-327: extend after its scan of the frame found no binding
extend_push(h, node, val, env) ==
    LET vv == Alloc(h, [make_atom EXCEPT !.tail = <<node, val>>])
    IN  Ret([vv.h EXCEPT ![env].tail = Append(@, vv.v)], val)

\* A new frame parented on `parent` (the nenv of a lambda application).
NewFrame(h, parent) == Alloc(h, [make_atom EXCEPT !.tail = <<parent>>])


----------------------------------------------------------------------------
(* Printer.  Text is a sequence of one-character strings.                  *)

DigitChars == <<"0", "1", "2", "3", "4", "5", "6", "7", "8", "9">>

\* out << v for a Real that holds a non-negative integer
RECURSIVE NatToChars(_)
NatToChars(n) ==
    IF n < 10 THEN <<DigitChars[n + 1]>>
    ELSE NatToChars(n \div 10) \o <<DigitChars[(n % 10) + 1]>>

RealToChars(n) == IF n < 0 THEN <<"-">> \o NatToChars(-n) ELSE NatToChars(n)

RECURSIVE print_elems(_, _)
print_elems(v, i) ==
    IF i > Len(v) THEN <<>>
    ELSE RealToChars(v[i]) \o (IF i + 1 <= Len(v) THEN <<" ">> ELSE <<>>)
         \o print_elems(v, i + 1)

print_valarray(v) == <<"[">> \o print_elems(v, 1) \o <<"]">>

RECURSIVE print(_, _, _)
RECURSIVE print_tail(_, _, _, _)
print_tail(h, e, write, i) ==
    IF i >= Len(h[e].tail) THEN <<>>
    ELSE print(h, at(h[e], i), write)
         \o (IF i # Len(h[e].tail) - 1 THEN <<" ">> ELSE <<>>)
         \o print_tail(h, e, write, i + 1)

print(h, e, write) ==
    IF e = NULL THEN <<>>
    ELSE CASE h[e].type = "LIST" -> <<"(">> \o print_tail(h, e, write, 0) \o <<")">>
           [] h[e].type = "SYMBOL" -> h[e].lexeme
           [] h[e].type = "STRING" ->
                 IF write THEN <<"\"">> \o h[e].lexeme \o <<"\"">> ELSE h[e].lexeme
           [] h[e].type = "ARRAY" -> print_valarray(h[e].array) \o <<"\n">>
           [] h[e].type \in {"LAMBDA", "MACRO"} ->
                 (IF h[e].type = "LAMBDA"
                  THEN <<"(", "l", "a", "m", "b", "d", "a", " ">>
                  ELSE <<"(", "m", "a", "c", "r", "o", " ">>)
                 \o print(h, at(h[e], 0), write) \o <<" ">>
                 \o print(h, at(h[e], 1), write) \o <<")">>
           [] h[e].type = "OP" ->
                 IF write THEN h[e].lexeme ELSE <<"<", "o", "p", ">">>

----------------------------------------------------------------------------
(* Reader.  A std::istream is the text, the position of the next character *)
(* and the eofbit.                                                         *)

\* What in.get () returns at the end of the input: EOF, stored in a char
\* (negative where char is signed).
EOFc == "<eof>"

\* The character 0.
NULc == "<nul>"

Stream(s) == [s |-> s, pos |-> 1, eof |-> FALSE]

\* No interpreter is running (SpecEnv, SpecRT).
NoEval ==
    /\ cin = Stream(<<>>)
    /\ linenum = 0
    /\ threads = <<>>
    /\ out = <<>>
    /\ aborted = FALSE
    /\ log = <<>>

\* c = in.get ()
get(st) ==
    IF st.pos <= Len(st.s)
    THEN [c |-> st.s[st.pos], st |-> [st EXCEPT !.pos = @ + 1]]
    ELSE [c |-> EOFc, st |-> [st EXCEPT !.eof = TRUE]]

\* in.get (c): c keeps its value when no character is left
get_into(st, c) ==
    IF st.pos <= Len(st.s)
    THEN [c |-> st.s[st.pos], st |-> [st EXCEPT !.pos = @ + 1]]
    ELSE [c |-> c, st |-> [st EXCEPT !.eof = TRUE]]

\* in.putback (c), after a get that read c
putback(st) == [st EXCEPT !.pos = @ - 1, !.eof = FALSE]

Token(tok, st, ln) == [tok |-> tok, st |-> st, ln |-> ln]

\* The one element of a set of one element.  The loops of the reader bind
\* what a call returned as the element of such a set, which has the call
\* evaluated once.
The(S) == CHOOSE x \in S : TRUE

\* do { c = in.get (); } while (c != '\n' && !in.eof ());
RECURSIVE skip_comment(_)
skip_comment(st) ==
    The({IF g.c # "\n" /\ ~g.st.eof THEN skip_comment(g.st) ELSE g.st : g \in {get(st)}})

\* The loop of next that reads a string literal; c is the last value of c.
RECURSIVE string_loop(_, _, _, _)
string_loop(st, ln, accum, c) ==
    IF st.eof THEN Token(accum, st, ln)
    ELSE The({
         LET ln1 == IF g.c = "\n" THEN ln + 1 ELSE ln
         IN  IF g.c = "\"" THEN Token(accum, g.st, ln1)
             ELSE IF g.c = "\\"
             THEN The({
                      CASE e.c = "n" -> string_loop(e.st, ln1, Append(accum, "\n"), e.c)
                        [] e.c = "r" -> string_loop(e.st, ln1, Append(accum, "\r"), e.c)
                        [] e.c = "t" -> string_loop(e.st, ln1, Append(accum, "\t"), e.c)
                        [] e.c = "\"" -> string_loop(e.st, ln1, Append(accum, "\""), NULc)
                        [] OTHER -> string_loop(e.st, ln1, accum, e.c)
                      : e \in {get(g.st)}})
             ELSE string_loop(g.st, ln1, Append(accum, g.c), g.c)
         : g \in {get_into(st, c)}})

\* The while loop of next.
RECURSIVE next_loop(_, _, _)
next_loop(st, ln, accum) ==
    IF st.eof THEN Token(accum, st, ln)
    ELSE The({
         LET c == g.c
         IN  CASE c = ";" -> The({next_loop(s, ln + 1, accum) : s \in {skip_comment(g.st)}})
               [] c \in {"(", ")", "'"} ->
                     IF Len(accum) > 0 THEN Token(accum, putback(g.st), ln)
                     ELSE Token(<<c>>, g.st, ln)
               [] c \in {"\t", "\n", "\r", " "} ->
                     LET ln1 == IF c = "\n" THEN ln + 1 ELSE ln
                     IN  IF Len(accum) > 0 THEN Token(accum, g.st, ln1)
                         ELSE next_loop(g.st, ln1, accum)
               [] c = "\"" ->
                     IF Len(accum) > 0 THEN Token(accum, putback(g.st), ln)
                     ELSE string_loop(g.st, ln, <<"\"">>, c)
               [] OTHER ->
                     next_loop(g.st, ln, IF c \notin {EOFc, NULc} THEN Append(accum, c) ELSE accum)
         : g \in {get(st)}})

next(st, ln) == next_loop(st, ln, <<>>)

\* is_number: the token parses as a Real as a whole.  Tokens here are over
\* an alphabet without `.`, exponents, inf or nan: a number is an optional
\* sign and one or more digits.
is_number(tt) ==
    LET body == IF Len(tt) > 0 /\ tt[1] \in {"-", "+"} THEN Tail(tt) ELSE tt
        digits == {DigitChars[k] : k \in 1..10}
    IN  Len(body) > 0 /\ \A i \in 1..Len(body) : body[i] \in digits

DigitVal(c) == (CHOOSE k \in 1..10 : DigitChars[k] = c) - 1

RECURSIVE NatVal(_)
NatVal(ds) ==
    IF Len(ds) = 0 THEN 0
    ELSE 10 * NatVal(SubSeq(ds, 1, Len(ds) - 1)) + DigitVal(ds[Len(ds)])

\* atof of a token that is_number accepts
atof(tt) ==
    IF tt[1] = "-" THEN 0 - NatVal(Tail(tt))
    ELSE IF tt[1] = "+" THEN NatVal(Tail(tt))
    ELSE NatVal(tt)

\* read is recursive: a call reads one token with next, and for `(` and `'`
\* calls read for what follows.  Its live calls are kept as a stack of
\* frames, innermost last: [kind |-> "list", l |-> the list being filled]
\* or [kind |-> "quote", l |-> the (quote ...) list].  A Reading is the
\* reader between two tokens; v is the Atom the outermost call returned,
\* NULL while it has not.
Reading(h, st, ln, stack, v) == [h |-> h, st |-> st, ln |-> ln, stack |-> stack, v |-> v]

\* The value v is returned by a call of read to the call below it.
RECURSIVE read_return(_, _, _, _, _)
read_return(h, st, ln, stack, v) ==
    IF Len(stack) = 0 THEN Reading(h, st, ln, stack, v)
    ELSE LET top == stack[Len(stack)]
             below == SubSeq(stack, 1, Len(stack) - 1)
         IN  IF top.kind = "quote"
             THEN read_return([h EXCEPT ![top.l].tail = Append(@, v)], st, ln, below, top.l)
             ELSE IF h[v].lexeme = <<")">>
             THEN read_return(h, st, ln, below, top.l)
             ELSE LET h1 == [h EXCEPT ![top.l].tail = Append(@, v)]
                  IN  \* while (!in.eof ())
                      IF st.eof THEN read_return(h1, st, ln, below, top.l)
                      ELSE Reading(h1, st, ln, stack, NULL)

\* One call of read, up to the call of read it makes or to its return.
read_token(h, st, ln, stack) ==
    LET t == next(st, ln)
    IN  IF Len(t.tok) = 0
        THEN LET a == Alloc(h, make_atom) IN read_return(a.h, t.st, t.ln, stack, a.v)
        ELSE IF t.tok = <<"(">>
        THEN LET l == Alloc(h, make_atom)
             IN  IF t.st.eof THEN read_return(l.h, t.st, t.ln, stack, l.v)
                 ELSE Reading(l.h, t.st, t.ln, Append(stack, [kind |-> "list", l |-> l.v]), NULL)
        ELSE IF t.tok = <<"'">>
        THEN LET ll == Alloc(h, make_atom)
                 q == Alloc(ll.h, Atom_lex(<<"q", "u", "o", "t", "e">>))
             IN  Reading([q.h EXCEPT ![ll.v].tail = <<q.v>>], t.st, t.ln,
                         Append(stack, [kind |-> "quote", l |-> ll.v]), NULL)
        ELSE IF is_number(t.tok)
        THEN LET a == Alloc(h, Atom_real(atof(t.tok)))
             IN  read_return(a.h, t.st, t.ln, stack, a.v)
        ELSE LET a == Alloc(h, Atom_lex(t.tok)) IN read_return(a.h, t.st, t.ln, stack, a.v)

\* The result of read: the heap, the Atom read, the stream and the line.
Parsed(h, v, st, ln) == [h |-> h, v |-> v, st |-> st, ln |-> ln]

RECURSIVE read_run(_)
read_run(r) ==
    IF r.v # NULL THEN Parsed(r.h, r.v, r.st, r.ln)
    ELSE The({read_run(q) : q \in {read_token(r.h, r.st, r.ln, r.stack)}})

\* read (in, linenum), from its call to its return
read(h, st, ln) == The({read_run(q) : q \in {read_token(h, st, ln, <<>>)}})

----------------------------------------------------------------------------
(* Checks, functors and the root environment *)

args_check(h, node, args) ==
    IF Len(h[node].tail) < args THEN "insufficient number of arguments" ELSE NoError

type_check(h, node, t) ==
    IF h[node].type # t THEN "invalid type" ELSE NoError

\* musil.h 37: ATOM_NAMES
ATOM_NAMES(type) ==
    CASE type = "LIST" -> <<"l", "i", "s", "t">>
      [] type = "SYMBOL" -> <<"s", "y", "m", "b", "o", "l">>
      [] type = "STRING" -> <<"s", "t", "r", "i", "n", "g">>
      [] type = "ARRAY" -> <<"a", "r", "r", "a", "y">>
      [] type = "LAMBDA" -> <<"l", "a", "m", "b", "d", "a">>
      [] type = "MACRO" -> <<"m", "a", "c", "r", "o">>
      [] type = "OP" -> <<"o", "p">>

\* musil.h 476-478
fn_type(h, node, env) == Alloc(h, Atom_lex(ATOM_NAMES(h[at(h[node], 0)].type)))

\* fn_list: the argument list itself
fn_list(h, node, env) == Ret(h, node)

\* musil.h 483-489.  (int) of a Real truncates; the Reals of the model are
\* integers.
fn_lindex(h, node, env) ==
    LET o == at(h[node], 0)
        pa == at(h[node], 1)
    IN  IF type_check(h, o, "LIST") # NoError THEN Throw(h, type_check(h, o, "LIST"))
        ELSE IF type_check(h, pa, "ARRAY") # NoError THEN Throw(h, type_check(h, pa, "ARRAY"))
        ELSE LET p == h[pa].array[1]
             IN  IF Len(h[o].tail) = 0 THEN Alloc(h, make_atom)
                 ELSE IF p < 0 \/ p >= Len(h[o].tail) THEN Throw(h, "[lindex] invalid index")
                 ELSE Ret(h, at(h[o], p))

\* fn_lset that stores into a copy of the list
fn_lset_copy(h, node, env) ==
    LET o == at(h[node], 0)
        p == h[at(h[node], 2)].array[1]
    IN  IF Len(h[o].tail) = 0 THEN Alloc(h, make_atom)
        ELSE IF p < 0 \/ p >= Len(h[o].tail) THEN Throw(h, "[lset] invalid index")
        ELSE Alloc(h, [h[o] EXCEPT !.tail[p + 1] = at(h[node], 1)])

\* musil.h 490-498
fn_lset(h, node, env) ==
    LET o == at(h[node], 0)
        e == at(h[node], 1)
        pa == at(h[node], 2)
    IN  IF type_check(h, o, "LIST") # NoError THEN Throw(h, type_check(h, o, "LIST"))
        ELSE IF type_check(h, pa, "ARRAY") # NoError THEN Throw(h, type_check(h, pa, "ARRAY"))
        ELSE LET p == h[pa].array[1]
             IN  IF Len(h[o].tail) = 0 THEN Alloc(h, make_atom)
                 ELSE IF p < 0 \/ p >= Len(h[o].tail) THEN Throw(h, "[lset] invalid index")
                 ELSE Ret([h EXCEPT ![o].tail[p + 1] = e], o)

\* The most elements a vector can grow to: push_back on a vector that holds
\* as many throws std::bad_alloc (the memory is exhausted).
MaxList == 5

\* musil.h 522: nl->tail.push_back (l->tail.at (j)), for j from i by stride
\* while j < end; at throws std::out_of_range outside the vector.
RECURSIVE lrange_loop(_, _, _, _, _, _)
lrange_loop(h, l, nl, j, end, stride) ==
    IF j >= end THEN Ret(h, nl)
    ELSE IF j < 0 \/ j >= Len(h[l].tail) THEN Throw(h, "std::out_of_range")
    ELSE IF Len(h[nl].tail) >= MaxList THEN Throw(h, "std::bad_alloc")
    ELSE lrange_loop([h EXCEPT ![nl].tail = Append(@, at(h[l], j))], l, nl, j + stride, end,
                     stride)

\* musil.h 509-524.  end > l->tail.size () compares an int with an unsigned:
\* the int is converted, and a negative end is larger than every size.
fn_lrange(h, node, env) ==
    LET l == at(h[node], 0)
        ia == at(h[node], 1)
        la == at(h[node], 2)
        sa == at(h[node], 3)
        withStride == Len(h[node].tail) = 4
    IN  IF type_check(h, l, "LIST") # NoError THEN Throw(h, type_check(h, l, "LIST"))
        ELSE IF type_check(h, ia, "ARRAY") # NoError THEN Throw(h, type_check(h, ia, "ARRAY"))
        ELSE IF type_check(h, la, "ARRAY") # NoError THEN Throw(h, type_check(h, la, "ARRAY"))
        ELSE IF withStride /\ type_check(h, sa, "ARRAY") # NoError
        THEN Throw(h, type_check(h, sa, "ARRAY"))
        ELSE LET i0 == h[ia].array[1]
                 end0 == i0 + h[la].array[1]
                 stride == IF withStride THEN h[sa].array[1] ELSE 1
                 i == IF i0 < 0 THEN 0 ELSE i0
                 end == IF end0 < 0 \/ end0 > Len(h[l].tail) THEN Len(h[l].tail) ELSE end0
                 nl == Alloc(h, make_atom)
             IN  lrange_loop(nl.h, l, nl.v, i, end, stride)

\* musil.h 538-542: l->tail.at (j) = r->tail.at (p), for j from i by stride
\* while j < i + len; at throws std::out_of_range outside the vector.
RECURSIVE lreplace_loop(_, _, _, _, _, _, _)
lreplace_loop(h, l, r, j, end, stride, p) ==
    IF j >= end THEN Ret(h, r)
    ELSE IF p >= Len(h[r].tail) \/ j >= Len(h[l].tail) THEN Throw(h, "std::out_of_range")
    ELSE lreplace_loop([h EXCEPT ![l].tail[j + 1] = at(h[r], p)], l, r, j + stride, end,
                       stride, p + 1)

\* musil.h 525-544
fn_lreplace(h, node, env) ==
    LET l == at(h[node], 0)
        r == at(h[node], 1)
        ia == at(h[node], 2)
        la == at(h[node], 3)
        sa == at(h[node], 4)
        withStride == Len(h[node].tail) = 5
    IN  IF type_check(h, l, "LIST") # NoError THEN Throw(h, type_check(h, l, "LIST"))
        ELSE IF type_check(h, r, "LIST") # NoError THEN Throw(h, type_check(h, r, "LIST"))
        ELSE IF type_check(h, ia, "ARRAY") # NoError THEN Throw(h, type_check(h, ia, "ARRAY"))
        ELSE IF type_check(h, la, "ARRAY") # NoError THEN Throw(h, type_check(h, la, "ARRAY"))
        ELSE IF withStride /\ type_check(h, sa, "ARRAY") # NoError
        THEN Throw(h, type_check(h, sa, "ARRAY"))
        ELSE LET i == h[ia].array[1]
                 len == h[la].array[1]
                 stride == IF withStride THEN h[sa].array[1] ELSE 1
             IN  IF i < 0 \/ len < 0 \/ stride < 1 \/ i + len > Len(h[l].tail)
                    \/ len \div stride > Len(h[r].tail)
                 THEN Alloc(h, make_atom)
                 ELSE lreplace_loop(h, l, r, i, i + len, stride, 0)

\* musil.h 556-562: the arrays of the arguments, one after the other
RECURSIVE array_loop(_, _, _, _)
array_loop(h, node, i, v) ==
    IF i >= Len(h[node].tail) THEN Alloc(h, Atom_array(v))
    ELSE IF type_check(h, at(h[node], i), "ARRAY") # NoError
    THEN Throw(h, type_check(h, at(h[node], i), "ARRAY"))
    ELSE array_loop(h, node, i + 1, v \o h[at(h[node], i)].array)

fn_array(h, node, env) == array_loop(h, node, 0, <<>>)

\* What a read of element idx of a valarray gives; outside the array it is
\* whatever the memory holds.
valarray_at(input, idx) ==
    IF 0 <= idx /\ idx < Len(input) THEN input[idx + 1] ELSE Indeterminate

\* the loop without the test of j against the size
slice_count_unbounded(size, len, stride, j, ct) == len

\* musil.h 647-652: the loop that counts the elements to take
RECURSIVE slice_count(_, _, _, _, _)
slice_count(size, len, stride, j, ct) ==
    IF j < size /\ ct < len THEN slice_count(size, len, stride, j + stride, ct + 1)
    ELSE ct

\* musil.h 636-655
fn_slice(h, node, env) ==
    LET x == at(h[node], 0)
        ia == at(h[node], 1)
        la == at(h[node], 2)
    IN  IF type_check(h, x, "ARRAY") # NoError THEN Throw(h, type_check(h, x, "ARRAY"))
        ELSE IF type_check(h, ia, "ARRAY") # NoError THEN Throw(h, type_check(h, ia, "ARRAY"))
        ELSE IF type_check(h, la, "ARRAY") # NoError THEN Throw(h, type_check(h, la, "ARRAY"))
        ELSE IF Len(h[node].tail) = 4 /\ type_check(h, at(h[node], 3), "ARRAY") # NoError
        THEN Throw(h, type_check(h, at(h[node], 3), "ARRAY"))
        ELSE LET input == h[x].array
                 i == h[ia].array[1]
                 len == h[la].array[1]
                 stride == IF Len(h[node].tail) = 4 THEN h[at(h[node], 3)].array[1] ELSE 1
             IN  IF i < 0 \/ len < 1 \/ stride < 1 THEN Throw(h, "[slice] invalid indexing")
                 ELSE LET ct == slice_count(Len(input), len, stride, i, 0)
                      IN  Alloc(h, Atom_array([k \in 1..ct |->
                                                 valarray_at(input, i + (k - 1) * stride)]))

fn_eq(h, node, env) ==
    Alloc(h, Atom_real(IF atom_eq(h, at(h[node], 0), at(h[node], 1)) THEN 1 ELSE 0))

\* The operators MAKE_ARRAYMETHOD is instantiated with, on two Reals.
ArrayOp(op, a, b) ==
    CASE op = "+" -> a + b
      [] op = "-" -> a - b
      [] op = "*" -> a * b
      [] op = "<" -> IF a < b THEN 1 ELSE 0
      [] op = ">" -> IF a > b THEN 1 ELSE 0

\* MAKE_ARRAYMETHOD: elementwise, a scalar on either side is broadcast.
\* Two arrays of different sizes (undefined for std::valarray) are outside
\* the CASE: no run of the model applies an operator to them.
ArrayMethod(h, node, op) ==
    LET x == at(h[node], 0)
        y == at(h[node], 1)
    IN  IF type_check(h, x, "ARRAY") # NoError THEN Throw(h, type_check(h, x, "ARRAY"))
        ELSE IF type_check(h, y, "ARRAY") # NoError THEN Throw(h, type_check(h, y, "ARRAY"))
        ELSE LET a == h[x].array
                 b == h[y].array
                 r == CASE Len(a) = 1 -> [i \in 1..Len(b) |-> ArrayOp(op, a[1], b[i])]
                        [] Len(a) # 1 /\ Len(b) = 1 -> [i \in 1..Len(a) |-> ArrayOp(op, a[i], b[1])]
                        [] Len(a) # 1 /\ Len(b) = Len(a) ->
                              [i \in 1..Len(a) |-> ArrayOp(op, a[i], b[i])]
             IN  Alloc(h, Atom_array(r))

\* func->op (args, env) for the functors that eval calls
CallOp(h, f, node, env) ==
    CASE f = "fn_list" -> fn_list(h, node, env)
      [] f = "fn_type" -> fn_type(h, node, env)
      [] f = "fn_lreplace" -> fn_lreplace(h, node, env)
      [] f = "fn_lrange" -> fn_lrange(h, node, env)
      [] f = "fn_lindex" -> fn_lindex(h, node, env)
      [] f = "fn_lset" -> fn_lset(h, node, env)
      [] f = "fn_array" -> fn_array(h, node, env)
      [] f = "fn_slice" -> fn_slice(h, node, env)
      [] f = "fn_eq" -> fn_eq(h, node, env)
      [] f = "fn_vadd" -> ArrayMethod(h, node, "+")
      [] f = "fn_vsub" -> ArrayMethod(h, node, "-")
      [] f = "fn_vmul" -> ArrayMethod(h, node, "*")
      [] f = "fn_less" -> ArrayMethod(h, node, "<")
      [] f = "fn_greater" -> ArrayMethod(h, node, ">")

\* minargs of the special forms: -1 stored in an unsigned, which is larger
\* than the size of any tail.  Only its order against a size is used (eval
\* returns from a special form before it reads minargs); it is written here
\* as the largest integer of the checker, 2^31 - 1.
NoArgsCheck == 2147483647

\* The operators make_env registers, in its order (the list, array and
\* string primitives that no run of the model calls are left out).
OpTable ==
    << <<<<"q", "u", "o", "t", "e">>, "fn_quote", NoArgsCheck>>,
       <<<<"d", "e", "f">>, "fn_def", NoArgsCheck>>,
       <<<<"=">>, "fn_set", NoArgsCheck>>,
       <<<<"\\">>, "fn_lambda", NoArgsCheck>>,
       <<<<"m", "a", "c", "r", "o">>, "fn_macro", NoArgsCheck>>,
       <<<<"i", "f">>, "fn_if", NoArgsCheck>>,
       <<<<"w", "h", "i", "l", "e">>, "fn_while", NoArgsCheck>>,
       <<<<"b", "e", "g", "i", "n">>, "fn_begin", NoArgsCheck>>,
       <<<<"e", "v", "a", "l">>, "fn_eval", 1>>,
       <<<<"a", "p", "p", "l", "y">>, "fn_apply", 2>>,
       <<<<"s", "c", "h", "e", "d", "u", "l", "e">>, "fn_schedule", NoArgsCheck>>,
       <<<<"t", "y", "p", "e">>, "fn_type", 1>>,
       <<<<"l", "i", "s", "t">>, "fn_list", 0>>,
       <<<<"l", "r", "e", "p", "l", "a", "c", "e">>, "fn_lreplace", 4>>,
       <<<<"l", "r", "a", "n", "g", "e">>, "fn_lrange", 3>>,
       <<<<"l", "i", "n", "d", "e", "x">>, "fn_lindex", 2>>,
       <<<<"l", "s", "e", "t">>, "fn_lset", 3>>,
       <<<<"a", "r", "r", "a", "y">>, "fn_array", 0>>,
       <<<<"=", "=">>, "fn_eq", 2>>,
       <<<<"+">>, "fn_vadd", 2>>,
       <<<<"-">>, "fn_vsub", 2>>,
       <<<<"*">>, "fn_vmul", 2>>,
       <<<<"<">>, "fn_less", 2>>,
       <<<<">">>, "fn_greater", 2>>,
       <<<<"s", "l", "i", "c", "e">>, "fn_slice", 3>>,
       <<<<"l", "o", "a", "d">>, "fn_load", 0>> >>

add_op(h, lexeme, f, minargs, env) ==
    LET op == Alloc(h, Atom_op(f, lexeme, minargs))
        sym == Alloc(op.h, Atom_lex(lexeme))
    IN  extend(sym.h, sym.v, op.v, env, FALSE).h

\* The calls of add_op in make_env, from the i-th on.  (The test on h has
\* the heap of one call evaluated before the next call is looked at.)
RECURSIVE add_ops(_, _, _)
add_ops(h, env, i) ==
    IF i > Len(OpTable) \/ Len(h) = 0 THEN h
    ELSE add_ops(add_op(h, OpTable[i][1], OpTable[i][2], OpTable[i][3], env), env, i + 1)

make_env ==
    LET env == Alloc(<<>>, make_atom)
        nil == Alloc(env.h, make_atom)
    IN  Ret(add_ops([nil.h EXCEPT ![env.v].tail = <<nil.v>>], env.v, 1), env.v)

----------------------------------------------------------------------------
(* eval.  One activation of eval is a record: node0 is the node pushed on  *)
(* eval_stack by the StackGuard, node and env are the loop's variables, pc *)
(* is the place in the function where the activation waits for a nested    *)
(* eval, the rest are its locals.  A segment is the code an activation     *)
(* runs between two nested calls; it yields an outcome:                    *)
(*   call   a nested eval (node, env); the activation becomes a            *)
(*   stay   the activation becomes a (a `continue`, or Later's sleep)      *)
(*   ret    the activation returns v                                       *)
(*   raise  error () throws err                                            *)
(*   spawn  the activation returns v and a detached thread is started      *)
(* A functor that calls eval (fn_load, through load) runs inside the        *)
(* activation that called it: fname, in and linenum are the file name, the  *)
(* stream and the line counter of load, r its result so far.               *)

Activation(node, env) ==
    [node0 |-> node, node |-> node, env |-> env, pc |-> "start", func |-> NULL,
     args |-> NULL, i |-> 0, r |-> NULL, task |-> NULL, msec |-> 0, async |-> FALSE,
     fname |-> <<>>, in |-> Stream(<<>>), linenum |-> 0]

Outcome(k, h, a, node, env, v, err, ev) ==
    [k |-> k, h |-> h, a |-> a, node |-> node, env |-> env, v |-> v, err |-> err, ev |-> ev]

OCall(h, a, node, env) == Outcome("call", h, a, node, env, NULL, NoError, "")

OStay(h, a, ev) == Outcome("stay", h, a, NULL, NULL, NULL, NoError, ev)

ORet(h, a, v, ev) == Outcome("ret", h, a, NULL, NULL, v, NoError, ev)

ORaise(h, a, err) == Outcome("raise", h, a, NULL, NULL, NULL, err, "")

OSpawn(h, a, v, task, env) == Outcome("spawn", h, a, task, env, v, NoError, "arm_async")

\* node = ...; continue;  the same activation dispatches the new node
Redispatch(h, a, node, env) ==
    OStay(h, [a EXCEPT !.node = node, !.env = env, !.pc = "start"], "")

\* The result of a call that may throw, as an outcome.
Returned(r, a) == IF r.err = NoError THEN ORet(r.h, a, r.v, "") ELSE ORaise(r.h, a, r.err)

\* musil.h 346-350
SegStart(h, a) ==
    IF is_nil(h, a.node)
    THEN Returned(Alloc(h, make_atom), a)
    ELSE IF h[a.node].type = "SYMBOL" /\ Len(h[a.node].lexeme) > 0
    THEN Returned(assoc(h, a.node, a.env), a)
    ELSE IF h[a.node].type # "LIST"
    THEN ORet(h, a, a.node, "")
    ELSE OCall(h, [a EXCEPT !.pc = "head"], at(h[a.node], 0), a.env)

\* A lambda that keeps a copy of the frame it was made in.
make_lambda_snapshot(h, node, env, macro, garbage) ==
    LET n == Len(h[env].tail) - 1
        recs == [i \in 1..n |-> h[at(h[env], i)]]
        frame == [make_atom EXCEPT !.tail = <<at(h[env], 0)>> \o [i \in 1..n |-> Len(h) + i]]
        h1 == h \o recs \o <<frame>>
        body == Alloc(h1, [make_atom EXCEPT !.tail = SubSeq(h[node].tail, 3, Len(h[node].tail))])
    IN  Alloc(body.h, [Atom_lambda(at(h[node], 1), body.v, Len(h1))
                          EXCEPT !.type = IF macro THEN "MACRO" ELSE "LAMBDA"])

\* musil.h 365-375: the Lambda (or Macro) of a `\` form, closed over env.
\* Atom (AtomPtr) leaves op uninitialised: garbage is what the storage holds.
make_lambda(h, node, env, macro, garbage) ==
    LET ll == Alloc(h, [make_atom EXCEPT !.tail = <<at(h[node], 1)>>])
        body == Alloc(ll.h, [make_atom EXCEPT !.tail = SubSeq(h[node].tail, 3, Len(h[node].tail))])
        h2 == [body.h EXCEPT ![ll.v].tail = @ \o <<body.v, env>>]
    IN  Alloc(h2, [Atom_lambda(at(h2[ll.v], 0), at(h2[ll.v], 1), at(h2[ll.v], 2))
                      EXCEPT !.type = IF macro THEN "MACRO" ELSE "LAMBDA", !.op = garbage])

\* Arguments evaluated for every callable.
ArgsAreRaw_never(h, func) == FALSE

\* musil.h 416: the argument forms of a macro call are passed unevaluated
ArgsAreRaw(h, func) == h[func].type = "MACRO"

\* musil.h 426-428: bind the first n parameters to the arguments.  (The test
\* on h has the heap of one extend evaluated before the next is looked at.)
RECURSIVE BindParams(_, _, _, _, _, _)
BindParams(h, vars_, args, nenv, i, n) ==
    IF i >= n \/ Len(h) = 0 THEN h
    ELSE BindParams(extend(h, at(h[vars_], i), at(h[args], i), nenv, FALSE).h,
                    vars_, args, nenv, i + 1, n)

\* musil.h 430-442: the Lambda returned when fewer arguments than
\* parameters are supplied
partial_apply(h, func, minargs, nenv) ==
    LET vars_ == at(h[func], 0)
        body == at(h[func], 1)
        vars_cut == Alloc(h, [make_atom EXCEPT
                        !.tail = [i \in 1..minargs |-> at(h[vars_], i - 1)]])
        new_lambda == Alloc(vars_cut.h, [make_atom EXCEPT !.tail = <<vars_cut.v, body, nenv>>])
    IN  Alloc(new_lambda.h, [Atom_lambda(vars_cut.v, body, nenv) EXCEPT !.type = h[func].type])

\* musil.h 444-449: the body loop from index a.i on, in a.env
BodyStep(h, a) ==
    LET body == at(h[a.func], 1)
        size == Len(h[body].tail)
        macro == h[a.func].type = "MACRO"
    IN  IF a.i < size - 1
        THEN OCall(h, [a EXCEPT !.pc = IF macro THEN "macro_expand" ELSE "body"],
                   at(h[body], a.i), a.env)
        ELSE IF macro
        THEN OCall(h, [a EXCEPT !.pc = "macro_last"], at(h[body], size - 1), a.env)
        ELSE Redispatch(h, a, at(h[body], size - 1), a.env)

\* an application that drops the arguments beyond the parameters
ApplyLambda_lenient(h, a) ==
    LET vars_ == at(h[a.func], 0)
        nenv == NewFrame(h, at(h[a.func], 2))
        nvars == Len(h[vars_].tail)
        nargs == Len(h[a.args].tail)
        minargs == IF nvars > nargs THEN nargs ELSE nvars
        hb == BindParams(nenv.h, vars_, a.args, nenv.v, 0, minargs)
    IN  IF nvars > nargs
        THEN LET f == partial_apply(hb, a.func, minargs, nenv.v)
             IN  ORet(f.h, a, f.v, "partial")
        ELSE BodyStep(hb, [a EXCEPT !.env = nenv.v, !.i = 0])

\* musil.h 418-450
ApplyLambda(h, a) ==
    LET vars_ == at(h[a.func], 0)
        nenv == NewFrame(h, at(h[a.func], 2))
        nvars == Len(h[vars_].tail)
        nargs == Len(h[a.args].tail)
        minargs == IF nvars > nargs THEN nargs ELSE nvars
    IN  IF nvars < nargs
        THEN ORaise(nenv.h, a, "[lambda/macro] too many arguments")
        ELSE LET hb == BindParams(nenv.h, vars_, a.args, nenv.v, 0, minargs)
             IN  IF nvars > nargs
                 THEN LET f == partial_apply(hb, a.func, minargs, nenv.v)
                      IN  ORet(f.h, a, f.v, "partial")
                 ELSE BodyStep(hb, [a EXCEPT !.env = nenv.v, !.i = 0])

\* The files that std::ifstream can open: for each name the top-level forms
\* of the file, one on a line, and whether a newline ends the last line.
FileNames == {<<"p">>, <<"q">>, <<"r">>, <<"s">>, <<"t">>}

Files(name) ==
    LET defa == <<"(", "d", "e", "f", " ", "a", " ", "1", ")">>
        defb == <<"(", "d", "e", "f", " ", "b", " ", "2", ")">>
        nope == <<"(", "n", "o", "p", "e", ")">>
        defba == <<"(", "d", "e", "f", " ", "b", " ", "(", "+", " ", "a", " ", "1", ")", ")">>
    IN  CASE name = <<"p">> -> [forms |-> <<defa, defb>>, nl |-> TRUE]
          [] name = <<"q">> -> [forms |-> <<defa, nope, defba>>, nl |-> TRUE]
          [] name = <<"r">> -> [forms |-> <<defa, defb, <<"z", "z">>, <<"a">> >>, nl |-> FALSE]
          [] name = <<"s">> -> [forms |-> <<nope, defa, <<"z", "z">> >>, nl |-> TRUE]
          [] name = <<"t">> -> [forms |-> <<defa, nope, defba>>, nl |-> FALSE]

RECURSIVE Lines(_, _)
Lines(forms, i) ==
    IF i > Len(forms) THEN <<>>
    ELSE forms[i] \o (IF i < Len(forms) THEN <<"\n">> ELSE <<>>) \o Lines(forms, i + 1)

\* the characters of the file
FileText(name) ==
    Lines(Files(name).forms, 1) \o (IF Files(name).nl THEN <<"\n">> ELSE <<>>)

\* musil.h 781-784: fn_load opens the file and calls load
fn_load(h, a) ==
    IF Len(h[a.args].tail) = 0
    THEN ORaise(h, a, "std::out_of_range")
    ELSE IF type_check(h, at(h[a.args], 0), "STRING") # NoError
    THEN ORaise(h, a, type_check(h, at(h[a.args], 0), "STRING"))
    ELSE IF h[at(h[a.args], 0)].lexeme \notin FileNames
    THEN ORaise(h, a, "[load] cannot open input file")
    ELSE OStay(h, [a EXCEPT !.pc = "load_loop", !.r = NULL, !.linenum = 0,
                            !.fname = h[at(h[a.args], 0)].lexeme,
                            !.in = Stream(FileText(h[at(h[a.args], 0)].lexeme))], "load")

\* musil.h 769-779: the loop of load, up to its call of eval or its return
SegLoad(h, a) ==
    IF a.in.eof THEN ORet(h, a, a.r, "")
    ELSE The({IF ~l.st.eof
              THEN OCall(l.h, [a EXCEPT !.pc = "load_eval", !.in = l.st, !.linenum = l.ln],
                         l.v, a.env)
              ELSE OStay(l.h, [a EXCEPT !.in = l.st, !.linenum = l.ln], "")
              : l \in {read(h, a.in, a.linenum)}})

\* musil.h 772: r = eval (l, env)
SegLoadEval(h, a, ret) == OStay(h, [a EXCEPT !.pc = "load_loop", !.r = ret], "")

\* musil.h 451-465
ApplyOp(h, a) ==
    LET f == h[a.func].op
    IN  IF args_check(h, a.args, h[a.func].minargs) # NoError
        THEN ORaise(h, a, args_check(h, a.args, h[a.func].minargs))
        ELSE IF f = "fn_eval"
        THEN Redispatch(h, a, at(h[a.args], 0), a.env)
        ELSE IF f = "fn_apply"
        THEN LET l == at(h[a.args], 1)
             IN  IF type_check(h, l, "LIST") # NoError
                 THEN ORaise(h, a, type_check(h, l, "LIST"))
                 ELSE Redispatch([h EXCEPT ![l].tail = <<at(h[a.args], 0)>> \o @], a, l, a.env)
        ELSE IF f = "fn_load"
        THEN fn_load(h, a)
        ELSE Returned(CallOp(h, f, a.args, a.env), a)

\* musil.h 418-466: the callable a.func applied to the list a.args
SegApply(h, a) ==
    IF h[a.func].type \in {"LAMBDA", "MACRO"} THEN ApplyLambda(h, a)
    ELSE IF h[a.func].type = "OP" THEN ApplyOp(h, a)
    ELSE ORaise(h, a, "function expected")

\* The values that the uninitialised op of a new Atom can have.  The
\* storage of an Atom that was released is used again for a later one, op
\* included (no constructor but Atom (Functor) writes it).  The sentinel OP
\* atoms are held by the bindings of the root frame: one is released when
\* its binding is overwritten and nothing else refers to it.
RootOps == {x \in 1..Len(make_env.h) : make_env.h[x].type = "OP"}

Uninitialised(h) ==
    LET root == h[make_env.v].tail
        bound == {at(h[root[i]], 1) : i \in 2..Len(root)}
        unbound == RootOps \ bound
        released == {x \in unbound :
                        \A z \in 1..Len(h) : \A i \in 1..Len(h[z].tail) : h[z].tail[i] # x}
    IN  IF unbound = {} THEN {Indeterminate}
        ELSE {Indeterminate} \cup {h[x].op : x \in released}

\* musil.h 351-417: dispatch on the evaluated head.  In def and = the
\* compiler orders type_check and the nested eval; tcFirst is its choice.
\* The tests func->op == &fn_... come before the test of func->type, so they
\* read op also when func is not an OP.
SegHead(h, a0, func, tcFirst, garbage) ==
    LET a == [a0 EXCEPT !.func = func]
        f == h[func].op
        n == h[a.node]
    IN  CASE f = "fn_quote" ->
                IF args_check(h, a.node, 2) # NoError
                THEN ORaise(h, a, args_check(h, a.node, 2))
                ELSE ORet(h, a, at(n, 1), "")
          [] f \in {"fn_def", "fn_set"} ->
                IF args_check(h, a.node, 3) # NoError
                THEN ORaise(h, a, args_check(h, a.node, 3))
                ELSE IF tcFirst /\ type_check(h, at(n, 1), "SYMBOL") # NoError
                THEN ORaise(h, a, type_check(h, at(n, 1), "SYMBOL"))
                ELSE OCall(h, [a EXCEPT !.pc = "def_val"], at(n, 2), a.env)
          [] f \in {"fn_lambda", "fn_macro"} ->
                IF args_check(h, a.node, 3) # NoError
                THEN ORaise(h, a, args_check(h, a.node, 3))
                ELSE IF type_check(h, at(n, 1), "LIST") # NoError
                THEN ORaise(h, a, type_check(h, at(n, 1), "LIST"))
                ELSE Returned(make_lambda(h, a.node, a.env, f = "fn_macro", garbage), a)
          [] f = "fn_if" ->
                IF args_check(h, a.node, 3) # NoError
                THEN ORaise(h, a, args_check(h, a.node, 3))
                ELSE OCall(h, [a EXCEPT !.pc = "if_test"], at(n, 1), a.env)
          [] f = "fn_while" ->
                IF args_check(h, a.node, 3) # NoError
                THEN ORaise(h, a, args_check(h, a.node, 3))
                ELSE LET r == Alloc(h, make_atom)
                     IN  OCall(r.h, [a EXCEPT !.pc = "while_test", !.r = r.v], at(n, 1), a.env)
          [] f = "fn_begin" ->
                IF args_check(h, a.node, 2) # NoError
                THEN ORaise(h, a, args_check(h, a.node, 2))
                ELSE OCall(h, [a EXCEPT !.pc = "begin", !.i = 0], at(n, 0), a.env)
          [] f = "fn_schedule" ->
                IF args_check(h, a.node, 4) # NoError
                THEN ORaise(h, a, args_check(h, a.node, 4))
                ELSE IF type_check(h, at(n, 1), "LIST") # NoError
                THEN ORaise(h, a, type_check(h, at(n, 1), "LIST"))
                ELSE IF args_check(h, at(n, 1), 1) # NoError
                THEN ORaise(h, a, args_check(h, at(n, 1), 1))
                ELSE OCall(h, [a EXCEPT !.pc = "sched_msec", !.task = at(n, 1)], at(n, 2), a.env)
          [] OTHER ->
                LET args == Alloc(h, make_atom)
                IN  IF ArgsAreRaw(h, func)
                    THEN SegApply([args.h EXCEPT ![args.v].tail = Tail(n.tail)],
                                  [a EXCEPT !.args = args.v])
                    ELSE IF Len(n.tail) > 1
                    THEN OCall(args.h, [a EXCEPT !.pc = "args", !.args = args.v, !.i = 1],
                               at(n, 1), a.env)
                    ELSE SegApply(args.h, [a EXCEPT !.args = args.v])

\* an argument loop that, after the first argument, takes the others from
\* the last one backwards
SegArgs_backwards(h, a, ret) ==
    LET h1 == [h EXCEPT ![a.args].tail = Append(@, ret)]
        n == h[a.node]
    IN  IF a.i + 1 < Len(n.tail)
        THEN OCall(h1, [a EXCEPT !.i = a.i + 1], at(n, Len(n.tail) - a.i), a.env)
        ELSE SegApply(h1, a)

\* musil.h 415-417: one more evaluated argument
SegArgs(h, a, ret) ==
    LET h1 == [h EXCEPT ![a.args].tail = Append(@, ret)]
        n == h[a.node]
    IN  IF a.i + 1 < Len(n.tail)
        THEN OCall(h1, [a EXCEPT !.i = a.i + 1], at(n, a.i + 1), a.env)
        ELSE SegApply(h1, a)

\* musil.h 357, 361: extend with the evaluated expression, up to the end of
\* its scan of the frame (musil.h 312-318).  A definition that found no
\* binding of the symbol has the binding record still to add: another
\* thread can run between the scan and the push_back.
SegDefVal(h, a, ret) ==
    LET sym == at(h[a.node], 1)
        recurse == h[a.func].op = "fn_set"
    IN  IF type_check(h, sym, "SYMBOL") # NoError
        THEN ORaise(h, a, type_check(h, sym, "SYMBOL"))
        ELSE IF ~recurse /\ FirstMatch(h, sym, a.env) = 0
        THEN OStay(h, [a EXCEPT !.pc = "def_push", !.r = ret], "")
        ELSE Returned(extend(h, sym, ret, a.env, recurse), a)

\* musil.h 323-327: the binding record is made and pushed on the frame
SegDefPush(h, a) == Returned(extend_push(h, at(h[a.node], 1), a.r, a.env), a)

\* if that evaluates the chosen branch in a nested eval and dispatches its
\* value.
SegIfTest_nested(h, a, ret) ==
    LET n == h[a.node]
    IN  IF type_check(h, ret, "ARRAY") # NoError
        THEN ORaise(h, a, type_check(h, ret, "ARRAY"))
        ELSE IF h[ret].array[1] # 0
        THEN OCall(h, [a EXCEPT !.pc = "macro_last"], at(n, 2), a.env)
        ELSE IF Len(n.tail) = 4
        THEN OCall(h, [a EXCEPT !.pc = "macro_last"], at(n, 3), a.env)
        ELSE Returned(Alloc(h, make_atom), a)

\* musil.h 379-387
SegIfTest(h, a, ret) ==
    LET n == h[a.node]
    IN  IF type_check(h, ret, "ARRAY") # NoError
        THEN ORaise(h, a, type_check(h, ret, "ARRAY"))
        ELSE IF h[ret].array[1] # 0
        THEN Redispatch(h, a, at(n, 2), a.env)
        ELSE IF Len(n.tail) = 4
        THEN Redispatch(h, a, at(n, 3), a.env)
        ELSE Returned(Alloc(h, make_atom), a)

\* musil.h 392: the test of while
SegWhileTest(h, a, ret) ==
    IF type_check(h, ret, "ARRAY") # NoError
    THEN ORaise(h, a, type_check(h, ret, "ARRAY"))
    ELSE IF h[ret].array[1] # 0
    THEN OCall(h, [a EXCEPT !.pc = "while_body"], at(h[a.node], 2), a.env)
    ELSE ORet(h, a, a.r, "")

\* a while that returns after the first evaluation of its body
SegWhileBody_once(h, a, ret) == ORet(h, a, ret, "")

\* musil.h 393: r = eval (body)
SegWhileBody(h, a, ret) ==
    OCall(h, [a EXCEPT !.pc = "while_test", !.r = ret], at(h[a.node], 1), a.env)

\* musil.h 399-403
SegBegin(h, a, ret) ==
    LET n == h[a.node]
    IN  IF a.i + 1 < Len(n.tail) - 1
        THEN OCall(h, [a EXCEPT !.i = a.i + 1], at(n, a.i + 1), a.env)
        ELSE Redispatch(h, a, at(n, Len(n.tail) - 1), a.env)

\* musil.h 409
SegSchedMsec(h, a, ret) ==
    IF type_check(h, ret, "ARRAY") # NoError
    THEN ORaise(h, a, type_check(h, ret, "ARRAY"))
    ELSE OCall(h, [a EXCEPT !.pc = "sched_async", !.msec = h[ret].array[1]],
               at(h[a.node], 3), a.env)

\* Later that starts a thread whatever async is.
Later_detached(h, a) ==
    LET one == Alloc(h, Atom_real(1))
    IN  OSpawn(one.h, a, one.v, a.task, a.env)

\* Later that runs the task on the calling thread whatever async is.
Later_inline(h, a) == OStay(h, [a EXCEPT !.pc = "later_sleep"], "arm_sync")

\* musil.h 177-189, 411-412: Later (msec, async, &eval, task, env).  With
\* async a detached thread is started and schedule returns 1; without, the
\* calling thread sleeps and then runs the task itself.
Later(h, a) ==
    IF a.async
    THEN LET one == Alloc(h, Atom_real(1))
         IN  OSpawn(one.h, a, one.v, a.task, a.env)
    ELSE OStay(h, [a EXCEPT !.pc = "later_sleep"], "arm_sync")

\* musil.h 410-411
SegSchedAsync(h, a, ret) ==
    IF type_check(h, ret, "ARRAY") # NoError
    THEN ORaise(h, a, type_check(h, ret, "ARRAY"))
    ELSE Later(h, [a EXCEPT !.async = (h[ret].array[1] # 0)])

\* musil.h 186-187: the sleep is over, task () is eval (task, env)
SegLaterSleep(h, a) == OCall(h, [a EXCEPT !.pc = "sched_task"], a.task, a.env)

\* musil.h 412: the task's value is dropped
SegSchedTask(h, a, ret) == ORet(Alloc(h, Atom_real(1)).h, a, Alloc(h, Atom_real(1)).v, "")

\* musil.h 444-446: a body expression of a lambda is done
SegBody(h, a, ret) == BodyStep(h, [a EXCEPT !.i = a.i + 1])

\* musil.h 445: the form a macro body expression produced is evaluated
SegMacroExpand(h, a, ret) == OCall(h, [a EXCEPT !.pc = "macro_eval"], ret, a.env)

SegMacroEval(h, a, ret) == BodyStep(h, [a EXCEPT !.i = a.i + 1])

\* musil.h 447-449: the form the last body expression produced is the node
SegMacroLast(h, a, ret) == Redispatch(h, a, ret, a.env)

----------------------------------------------------------------------------
(* SpecEnv: the environment operations on their own.  Frames are created   *)
(* as a lambda application creates them and are read and written with      *)
(* assoc and extend, from a fresh root frame (make_env before add_op).     *)

MaxFrames == 2

MaxEnvHeap == 10

NoOp == [op |-> "none", sym |-> NULL, val |-> NULL, env |-> NULL,
         ret |-> NULL, err |-> NoError, pre |-> <<>>]

NoRT == [phase |-> "none", v |-> NULL, text |-> <<>>, back |-> NULL]

EnvHeap0 ==
    << make_atom,                                   \* 1: nil, the root's parent
       [make_atom EXCEPT !.tail = <<1>>],           \* 2: the root frame
       Atom_lex(<<"x">>),                           \* 3: a symbol x
       Atom_lex(<<"x">>),                           \* 4: another atom, same lexeme
       Atom_lex(<<"y">>),                           \* 5: a symbol y
       Atom_real(1),                                \* 6
       Atom_real(2) >>                              \* 7

EnvSyms == {3, 4, 5}

EnvVals == {6, 7}

EnvInit ==
    /\ heap = EnvHeap0
    /\ envs = <<2>>
    /\ last = NoOp
    /\ rt = NoRT
    /\ NoEval

Frames == {envs[i] : i \in 1..Len(envs)}

\* musil.h 421-422: nenv = make_atom (); nenv->tail.push_back (captured env)
EnvNewFrame(p) ==
    /\ Len(envs) < MaxFrames
    /\ LET r == NewFrame(heap, p)
       IN  /\ heap' = r.h
           /\ envs' = Append(envs, r.v)
           /\ last' = [NoOp EXCEPT !.op = "frame", !.env = p, !.ret = r.v, !.pre = heap]
    /\ UNCHANGED notEnv

\* define: extend (sym, val, env)
EnvDefine(e, s, v) ==
    /\ Len(heap) < MaxEnvHeap \/ FirstMatch(heap, s, e) # 0
    /\ LET r == extend(heap, s, v, e, FALSE)
       IN  /\ heap' = r.h
           /\ last' = [op |-> "define", sym |-> s, val |-> v, env |-> e,
                       ret |-> r.v, err |-> r.err, pre |-> heap]
    /\ UNCHANGED <<envs, notEnv>>

\* assign: extend (sym, val, env, true)
EnvAssign(e, s, v) ==
    /\ LET r == extend(heap, s, v, e, TRUE)
       IN  /\ heap' = r.h
           /\ last' = [op |-> "assign", sym |-> s, val |-> v, env |-> e,
                       ret |-> r.v, err |-> r.err, pre |-> heap]
    /\ UNCHANGED <<envs, notEnv>>

\* lookup: assoc (sym, env)
EnvLookup(e, s) ==
    /\ LET r == assoc(heap, s, e)
       IN  /\ heap' = r.h
           /\ last' = [op |-> "lookup", sym |-> s, val |-> NULL, env |-> e,
                       ret |-> r.v, err |-> r.err, pre |-> heap]
    /\ UNCHANGED <<envs, notEnv>>

EnvNext ==
    \/ \E p \in Frames : EnvNewFrame(p)
    \/ \E e \in Frames, s \in EnvSyms, v \in EnvVals : EnvDefine(e, s, v)
    \/ \E e \in Frames, s \in EnvSyms, v \in EnvVals : EnvAssign(e, s, v)
    \/ \E e \in Frames, s \in EnvSyms : EnvLookup(e, s)

SpecEnv == EnvInit /\ [][EnvNext]_vars

----------------------------------------------------------------------------
(* What the environment claims speak of, read off the heap directly.       *)

\* The bindings of frame e, in order, as <<lexeme, value>> pairs.
Bindings(h, e) ==
    [i \in 1..(Len(h[e].tail) - 1) |->
        <<h[h[h[e].tail[i + 1]].tail[1]].lexeme, h[h[e].tail[i + 1]].tail[2]>>]

Parent(h, e) == h[e].tail[1]

BindsIn(h, e, lx) == \E i \in DOMAIN Bindings(h, e) : Bindings(h, e)[i][1] = lx

\* The value of the first binding of lx in frame e (which binds lx).
ValueIn(h, e, lx) ==
    LET bs == Bindings(h, e)
        i == CHOOSE k \in DOMAIN bs :
                 bs[k][1] = lx /\ \A j \in 1..(k - 1) : bs[j][1] # lx
    IN  bs[i][2]

\* The frames from e up to the root.
RECURSIVE Chain(_, _)
Chain(h, e) ==
    IF e = NULL \/ Len(h[e].tail) = 0 THEN <<>> ELSE <<e>> \o Chain(h, Parent(h, e))

\* The innermost frame of e's chain that binds lx, or NULL.
Binder(h, e, lx) ==
    LET c == Chain(h, e)
        hits == {k \in DOMAIN c : BindsIn(h, c[k], lx)}
    IN  IF hits = {} THEN NULL ELSE c[CHOOSE k \in hits : \A j \in hits : k <= j]

\* Bindings bs with every binding of lx given the value v.
Overwritten(bs, lx, v) ==
    [i \in DOMAIN bs |-> IF bs[i][1] = lx THEN <<lx, v>> ELSE bs[i]]

\* No atom other than the frames in F differs between h0 and h, and the
\* frames in F keep their parent.
OnlyFramesTouched(h0, h, F) ==
    /\ Len(h) >= Len(h0)
    /\ \A a \in 1..Len(h0) :
          IF a \in Frames
          THEN /\ Parent(h, a) = Parent(h0, a)
               /\ a \notin F => Bindings(h, a) = Bindings(h0, a)
          ELSE h[a].type = h0[a].type /\ h[a].lexeme = h0[a].lexeme
               /\ h[a].array = h0[a].array
               /\ (Len(h0[a].tail) = 2 => h[a].tail[1] = h0[a].tail[1])

\* C7: define(sym, val, env) overwrites sym's binding in the current frame
\* when it has one (the frame keeps its length), appends exactly one
\* binding (sym, val) otherwise, changes no other binding of the frame and
\* no other frame, and a following lookup(sym, env) returns val.
C7_DefineIsLocal ==
    last.op = "define" =>
        LET h0 == last.pre
            e == last.env
            lx == h0[last.sym].lexeme
        IN  /\ last.err = NoError
            /\ last.ret = last.val
            /\ IF BindsIn(h0, e, lx)
               THEN Bindings(heap, e) = Overwritten(Bindings(h0, e), lx, last.val)
               ELSE Bindings(heap, e) = Append(Bindings(h0, e), <<lx, last.val>>)
            /\ OnlyFramesTouched(h0, heap, {e})
            /\ assoc(heap, last.sym, e) = Ret(heap, last.val)

\* A define that overwrote a binding of a child frame whose parent binds
\* the same symbol to another value.
C7_Witness ==
    /\ last.op = "define"
    /\ last.env # 2
    /\ BindsIn(last.pre, last.env, last.pre[last.sym].lexeme)
    /\ BindsIn(last.pre, Parent(last.pre, last.env), last.pre[last.sym].lexeme)
    /\ ValueIn(heap, Parent(heap, last.env), heap[last.sym].lexeme) # last.val
    /\ ValueIn(last.pre, last.env, heap[last.sym].lexeme) # last.val

\* C8: assign(sym, val, env) overwrites sym's binding in the innermost
\* frame of the chain that binds it, changes no other binding and allocates
\* nothing; when no frame binds sym it fails with `unbound identifier` and
\* the heap is as before.
C8_AssignInnermost ==
    last.op = "assign" =>
        LET h0 == last.pre
            lx == h0[last.sym].lexeme
            b == Binder(h0, last.env, lx)
        IN  IF b # NULL
            THEN /\ last.err = NoError
                 /\ last.ret = last.val
                 /\ Bindings(heap, b) = Overwritten(Bindings(h0, b), lx, last.val)
                 /\ OnlyFramesTouched(h0, heap, {b})
                 /\ Len(heap) = Len(h0)
            ELSE /\ last.err = "unbound identifier"
                 /\ heap = h0

\* An assign from a child frame that does not bind the symbol, which
\* changed the value bound in its parent.
C8_Witness ==
    /\ last.op = "assign"
    /\ last.env # 2
    /\ last.err = NoError
    /\ ~BindsIn(last.pre, last.env, last.pre[last.sym].lexeme)
    /\ Bindings(last.pre, last.env) # <<>>
    /\ ValueIn(last.pre, Parent(last.pre, last.env), heap[last.sym].lexeme) # last.val

\* C9: lookup(sym, env) returns the value sym has in the innermost frame of
\* the chain that binds it, fails with `unbound identifier` exactly when no
\* frame binds it, and leaves the heap as it was.
C9_LookupInnermost ==
    last.op = "lookup" =>
        LET lx == heap[last.sym].lexeme
            b == Binder(last.pre, last.env, lx)
        IN  /\ heap = last.pre
            /\ last.err \in {NoError, "unbound identifier"}
            /\ (last.err = "unbound identifier") <=> (b = NULL)
            /\ b # NULL => last.ret = ValueIn(last.pre, b, lx)

\* A lookup from a child frame that shadows its parent's binding.
C9_Witness ==
    /\ last.op = "lookup"
    /\ last.env # 2
    /\ last.err = NoError
    /\ BindsIn(heap, last.env, heap[last.sym].lexeme)
    /\ BindsIn(heap, Parent(heap, last.env), heap[last.sym].lexeme)
    /\ ValueIn(heap, Parent(heap, last.env), heap[last.sym].lexeme) # last.ret

----------------------------------------------------------------------------
(* SpecRT: print in write mode, then read the text back.  The values are   *)
(* built with the constructors the program builds them with: a Symbol or   *)
(* String from a token (Atom (std::string)), an Array (fn_array), a List   *)
(* (fn_list).                                                              *)

MaxRTLen == 2

RTLeaves ==
    { [k |-> "lex", lex |-> <<"a">>],                    \* the symbol a
      [k |-> "lex", lex |-> <<"+">>],                    \* the symbol +
      [k |-> "lex", lex |-> <<"\"", "a">>],              \* the string "a"
      [k |-> "lex", lex |-> <<"\"", "a", " ", "b">>],    \* the string "a b"
      [k |-> "lex", lex |-> <<"\"", "a", "\"", "b">>],   \* the string a"b, read from "a\"b"
      [k |-> "arr", a |-> <<5>>],                        \* (array 5)
      [k |-> "arr", a |-> <<1, 2>>] }                    \* (array 1 2)

RTLists(S, n) == UNION {[1..m -> S] : m \in 0..n}

RTInner == RTLeaves \cup {[k |-> "list", items |-> l] : l \in RTLists(RTLeaves, 1)}

RTValues == RTInner \cup {[k |-> "list", items |-> l] : l \in RTLists(RTInner, MaxRTLen)}

RECURSIVE Intern(_, _)
RECURSIVE InternItems(_, _, _, _)
InternItems(h, l, items, i) ==
    IF i > Len(items) THEN Ret(h, l)
    ELSE LET r == Intern(h, items[i])
         IN  InternItems([r.h EXCEPT ![l].tail = Append(@, r.v)], l, items, i + 1)

Intern(h, d) ==
    CASE d.k = "lex" -> Alloc(h, Atom_lex(d.lex))
      [] d.k = "arr" -> Alloc(h, Atom_array(d.a))
      [] d.k = "list" -> LET l == Alloc(h, make_atom) IN InternItems(l.h, l.v, d.items, 1)

RTInit ==
    /\ \E d \in RTValues :
          LET r == Intern(<<>>, d)
          IN  /\ heap = r.h
              /\ rt = [phase |-> "made", v |-> r.v, text |-> <<>>, back |-> NULL]
    /\ envs = <<>>
    /\ last = NoOp
    /\ NoEval

notRT == <<envs, last, evalVars>>

\* print (v, out, true)
RTWrite ==
    /\ rt.phase = "made"
    /\ rt' = [rt EXCEPT !.phase = "written", !.text = print(heap, rt.v, TRUE)]
    /\ UNCHANGED <<heap, notRT>>

\* read (in, linenum) on the text written
RTRead ==
    /\ rt.phase = "written"
    /\ LET r == read(heap, Stream(rt.text), 0)
       IN  /\ heap' = r.h
           /\ rt' = [rt EXCEPT !.phase = "read", !.back = r.v]
    /\ UNCHANGED notRT

RTNext == RTWrite \/ RTRead

SpecRT == RTInit /\ [][RTNext]_vars

\* C6: for every value built from lists, symbols, strings and arrays, the
\* value read back from its write-mode text is atom_eq to it.
C6_RoundTrip ==
    rt.phase = "read" => atom_eq(heap, rt.back, rt.v)

\* Where C6 fails: the value is an Array, or a String whose lexeme holds a
\* double quote, or a list holding one of these.
RECURSIVE Unreadable(_, _)
Unreadable(h, e) ==
    \/ h[e].type = "ARRAY"
    \/ h[e].type = "STRING" /\ \E i \in 1..Len(h[e].lexeme) : h[e].lexeme[i] = "\""
    \/ h[e].type = "LIST" /\ \E i \in 1..Len(h[e].tail) : Unreadable(h, h[e].tail[i])

\* The values of SpecRT that C6_RoundTrip does not hold for are exactly
\* the Unreadable ones.
C6_FailsOnlyOnArraysAndQuotes ==
    rt.phase = "read" => (atom_eq(heap, rt.back, rt.v) <=> ~Unreadable(heap, rt.v))

----------------------------------------------------------------------------
(* Spec: repl on a script.  make_env builds the root environment, repl     *)
(* reads one form at a time and evaluates it in the root environment, each *)
(* step runs one segment of the activation on top of a thread's stack.     *)
(* The text of an error is its first part (error () appends the node and   *)
(* the stack trace).                                                       *)

MaxVal == 2

MaxArg == 4

MaxN == 3

\*   (def x v1)
\*   (def f (\ () x))
\*   (def x v2)
\*   (f)
LexicalScope(v1, v2) ==
    <<"(", "d", "e", "f", " ", "x", " ">>
    \o
    NatToChars(v1)
    \o
    <<")", "\n", "(", "d", "e", "f", " ", "f", " ", "(", "\\", " ", "(", ")", " ", "x", ")", ")",
      "\n", "(", "d", "e", "f", " ", "x", " ">>
    \o
    NatToChars(v2)
    \o
    <<")", "\n", "(", "f", ")">>

\*   (def f (\ (x y) (* x y)))
\*   (f a b)
\*   ((f a) b)
PartialApp(a, b) ==
    <<"(", "d", "e", "f", " ", "f", " ", "(", "\\", " ", "(", "x", " ", "y", ")", " ", "(", "*",
      " ", "x", " ", "y", ")", ")", ")", "\n", "(", "f", " ">>
    \o
    NatToChars(a)
    \o
    <<" ">>
    \o
    NatToChars(b)
    \o
    <<")", "\n", "(", "(", "f", " ">>
    \o
    NatToChars(a)
    \o
    <<")", " ">>
    \o
    NatToChars(b)
    \o
    <<")">>

\*   (def g (\ (x y z) (list x y z)))
\*   (g 1)
\*   (g 1 2)
\*   (g 1 2 3)
Partial3 ==
    <<"(", "d", "e", "f", " ", "g", " ", "(", "\\", " ", "(", "x", " ", "y", " ", "z", ")", " ",
      "(", "l", "i", "s", "t", " ", "x", " ", "y", " ", "z", ")", ")", ")", "\n", "(", "g", " ",
      "1", ")", "\n", "(", "g", " ", "1", " ", "2", ")", "\n", "(", "g", " ", "1", " ", "2", " ",
      "3", ")">>

\*   (def loop (\ (n) (if (> n 0) (loop (- n 1)) n)))
\*   (loop n)
LoopIf(n) ==
    <<"(", "d", "e", "f", " ", "l", "o", "o", "p", " ", "(", "\\", " ", "(", "n", ")", " ", "(",
      "i", "f", " ", "(", ">", " ", "n", " ", "0", ")", " ", "(", "l", "o", "o", "p", " ", "(",
      "-", " ", "n", " ", "1", ")", ")", " ", "n", ")", ")", ")", "\n", "(", "l", "o", "o", "p",
      " ">>
    \o
    NatToChars(n)
    \o
    <<")">>

\*   (def loop (\ (n) (begin (if (> n 0) (loop (- n 1)) n))))
\*   (loop n)
LoopBegin(n) ==
    <<"(", "d", "e", "f", " ", "l", "o", "o", "p", " ", "(", "\\", " ", "(", "n", ")", " ", "(",
      "b", "e", "g", "i", "n", " ", "(", "i", "f", " ", "(", ">", " ", "n", " ", "0", ")", " ",
      "(", "l", "o", "o", "p", " ", "(", "-", " ", "n", " ", "1", ")", ")", " ", "n", ")", ")",
      ")", ")", "\n", "(", "l", "o", "o", "p", " ">>
    \o
    NatToChars(n)
    \o
    <<")">>

\*   (def loop (\ (n) (if (> n 0) (eval (list 'loop (- n 1))) n)))
\*   (loop n)
LoopEval(n) ==
    <<"(", "d", "e", "f", " ", "l", "o", "o", "p", " ", "(", "\\", " ", "(", "n", ")", " ", "(",
      "i", "f", " ", "(", ">", " ", "n", " ", "0", ")", " ", "(", "e", "v", "a", "l", " ", "(",
      "l", "i", "s", "t", " ", "'", "l", "o", "o", "p", " ", "(", "-", " ", "n", " ", "1", ")",
      ")", ")", " ", "n", ")", ")", ")", "\n", "(", "l", "o", "o", "p", " ">>
    \o
    NatToChars(n)
    \o
    <<")">>

\*   (def loop (\ (n) (if (> n 0) (apply loop (list (- n 1))) n)))
\*   (loop n)
LoopApply(n) ==
    <<"(", "d", "e", "f", " ", "l", "o", "o", "p", " ", "(", "\\", " ", "(", "n", ")", " ", "(",
      "i", "f", " ", "(", ">", " ", "n", " ", "0", ")", " ", "(", "a", "p", "p", "l", "y", " ",
      "l", "o", "o", "p", " ", "(", "l", "i", "s", "t", " ", "(", "-", " ", "n", " ", "1", ")",
      ")", ")", " ", "n", ")", ")", ")", "\n", "(", "l", "o", "o", "p", " ">>
    \o
    NatToChars(n)
    \o
    <<")">>

\*   (def m (macro (x) (list 'quote x)))
\*   (m (+ 1 2))
MacroRaw ==
    <<"(", "d", "e", "f", " ", "m", " ", "(", "m", "a", "c", "r", "o", " ", "(", "x", ")", " ",
      "(", "l", "i", "s", "t", " ", "'", "q", "u", "o", "t", "e", " ", "x", ")", ")", ")", "\n",
      "(", "m", " ", "(", "+", " ", "1", " ", "2", ")", ")">>

\*   (def m (macro (x) (list 'def 'w x) (list 'quote x)))
\*   (m 7)
\*   w
MacroBody ==
    <<"(", "d", "e", "f", " ", "m", " ", "(", "m", "a", "c", "r", "o", " ", "(", "x", ")", " ",
      "(", "l", "i", "s", "t", " ", "'", "d", "e", "f", " ", "'", "w", " ", "x", ")", " ", "(",
      "l", "i", "s", "t", " ", "'", "q", "u", "o", "t", "e", " ", "x", ")", ")", ")", "\n", "(",
      "m", " ", "7", ")", "\n", "w">>

\*   (def x 0)
\*   (schedule (def x (+ x 1)) 0 0)
\*   x
SyncSchedule ==
    <<"(", "d", "e", "f", " ", "x", " ", "0", ")", "\n", "(", "s", "c", "h", "e", "d", "u", "l",
      "e", " ", "(", "d", "e", "f", " ", "x", " ", "(", "+", " ", "x", " ", "1", ")", ")", " ",
      "0", " ", "0", ")", "\n", "x">>

\*   (def g (\ (y) (schedule (= y (+ y 1)) 0 0) y))
\*   (g 5)
SyncInLambda ==
    <<"(", "d", "e", "f", " ", "g", " ", "(", "\\", " ", "(", "y", ")", " ", "(", "s", "c", "h",
      "e", "d", "u", "l", "e", " ", "(", "=", " ", "y", " ", "(", "+", " ", "y", " ", "1", ")",
      ")", " ", "0", " ", "0", ")", " ", "y", ")", ")", "\n", "(", "g", " ", "5", ")">>

\*   (def x 0)
\*   (schedule (def x 1) 0 1)
\*   x
AsyncSchedule ==
    <<"(", "d", "e", "f", " ", "x", " ", "0", ")", "\n", "(", "s", "c", "h", "e", "d", "u", "l",
      "e", " ", "(", "d", "e", "f", " ", "x", " ", "1", ")", " ", "0", " ", "1", ")", "\n", "x">>

\*   (def g (\ (y) (schedule (= y 6) 0 1) y))
\*   (g 5)
AsyncInLambda ==
    <<"(", "d", "e", "f", " ", "g", " ", "(", "\\", " ", "(", "y", ")", " ", "(", "s", "c", "h",
      "e", "d", "u", "l", "e", " ", "(", "=", " ", "y", " ", "6", ")", " ", "0", " ", "1", ")",
      " ", "y", ")", ")", "\n", "(", "g", " ", "5", ")">>

\*   (def i 0)
\*   (while (< i 2) (= i (+ i 1)))
\*   i
WhileLoop ==
    <<"(", "d", "e", "f", " ", "i", " ", "0", ")", "\n", "(", "w", "h", "i", "l", "e", " ", "(",
      "<", " ", "i", " ", "2", ")", " ", "(", "=", " ", "i", " ", "(", "+", " ", "i", " ", "1",
      ")", ")", ")", "\n", "i">>

\*   (def i 0)
\*   (while (< i n) (begin (= i (+ i 1))))
\*   i
CountLoop(n) ==
    <<"(", "d", "e", "f", " ", "i", " ", "0", ")", "\n", "(", "w", "h", "i", "l", "e", " ", "(",
      "<", " ", "i", " ">> \o NatToChars(n)
    \o <<")", " ", "(", "b", "e", "g", "i", "n", " ", "(", "=", " ", "i", " ", "(", "+", " ",
         "i", " ", "1", ")", ")", ")", ")", "\n", "i">>

\*   (def f (\ (a b) (+ a b)))
\*   (def xs (list 1 2))
\*   (apply f xs)
\*   xs
\*   (apply f xs)
ApplyTwice ==
    <<"(", "d", "e", "f", " ", "f", " ", "(", "\\", " ", "(", "a", " ", "b", ")", " ", "(", "+",
      " ", "a", " ", "b", ")", ")", ")", "\n", "(", "d", "e", "f", " ", "x", "s", " ", "(", "l",
      "i", "s", "t", " ", "1", " ", "2", ")", ")", "\n", "(", "a", "p", "p", "l", "y", " ", "f",
      " ", "x", "s", ")", "\n", "x", "s", "\n", "(", "a", "p", "p", "l", "y", " ", "f", " ", "x",
      "s", ")">>

\*   (schedule (nope) 0 1)
\*   7
AsyncError ==
    <<"(", "s", "c", "h", "e", "d", "u", "l", "e", " ", "(", "n", "o", "p", "e", ")", " ", "0",
      " ", "1", ")", "\n", "7">>

\*   (schedule (nope) 0 0)
\*   7
SyncError ==
    <<"(", "s", "c", "h", "e", "d", "u", "l", "e", " ", "(", "n", "o", "p", "e", ")", " ", "0",
      " ", "0", ")", "\n", "7">>

\*   (def x 0)
\*   (def f (\ (a b c) (list a b c)))
\*   (f (= x 1) (= x (+ x 1)) (= x (* x 3)))
\*   (list (= x 2) (= x (+ x 1)))
\*   (begin (= x 1) (= x (+ x 4)) (= x (* x 2)))
EvalOrder ==
    <<"(", "d", "e", "f", " ", "x", " ", "0", ")", "\n", "(", "d", "e", "f", " ", "f", " ", "(",
      "\\", " ", "(", "a", " ", "b", " ", "c", ")", " ", "(", "l", "i", "s", "t", " ", "a", " ",
      "b", " ", "c", ")", ")", ")", "\n", "(", "f", " ", "(", "=", " ", "x", " ", "1", ")", " ",
      "(", "=", " ", "x", " ", "(", "+", " ", "x", " ", "1", ")", ")", " ", "(", "=", " ", "x",
      " ", "(", "*", " ", "x", " ", "3", ")", ")", ")", "\n", "(", "l", "i", "s", "t", " ", "(",
      "=", " ", "x", " ", "2", ")", " ", "(", "=", " ", "x", " ", "(", "+", " ", "x", " ", "1",
      ")", ")", ")", "\n", "(", "b", "e", "g", "i", "n", " ", "(", "=", " ", "x", " ", "1", ")",
      " ", "(", "=", " ", "x", " ", "(", "+", " ", "x", " ", "4", ")", ")", " ", "(", "=", " ",
      "x", " ", "(", "*", " ", "x", " ", "2", ")", ")", ")">>

\*   (apply type (list 'x))
\*   (def x 5)
\*   (apply type (list 'x))
ApplyQuoted ==
    <<"(", "a", "p", "p", "l", "y", " ", "t", "y", "p", "e", " ", "(", "l", "i", "s", "t", " ",
      "'", "x", ")", ")", "\n", "(", "d", "e", "f", " ", "x", " ", "5", ")", "\n", "(", "a", "p",
      "p", "l", "y", " ", "t", "y", "p", "e", " ", "(", "l", "i", "s", "t", " ", "'", "x", ")",
      ")">>

\*   (def q quote)
\*   (q (nope))
\*   (def if (\ (a b) (list a b)))
\*   (if 0 4)
\*   (def g (\ (a b) (list a b)))
\*   (g 0 4)
Rebind ==
    <<"(", "d", "e", "f", " ", "q", " ", "q", "u", "o", "t", "e", ")", "\n", "(", "q", " ", "(",
      "n", "o", "p", "e", ")", ")", "\n", "(", "d", "e", "f", " ", "i", "f", " ", "(", "\\",
      " ", "(", "a", " ", "b", ")", " ", "(", "l", "i", "s", "t", " ", "a", " ", "b", ")", ")",
      ")", "\n", "(", "i", "f", " ", "0", " ", "4", ")", "\n", "(", "d", "e", "f", " ", "g", " ",
      "(", "\\", " ", "(", "a", " ", "b", ")", " ", "(", "l", "i", "s", "t", " ", "a", " ",
      "b", ")", ")", ")", "\n", "(", "g", " ", "0", " ", "4", ")">>

\*   ; c
\*   "a
\*   b"
\*   7 ; c
LineFeeds ==
    <<";", " ", "c", "\n", "\"", "a", "\n", "b", "\"", "\n", "7", " ", ";", " ", "c">>

\*   (schedule (def z 1) 0 1)
\*   (def z 2)
\*   z
AsyncDefine ==
    <<"(", "s", "c", "h", "e", "d", "u", "l", "e", " ", "(", "d", "e", "f", " ", "z", " ", "1",
      ")", " ", "0", " ", "1", ")", "\n", "(", "d", "e", "f", " ", "z", " ", "2", ")", "\n", "z">>

\*   (list "a)" 1)
\*   (list ")" 1)
CloseString ==
    <<"(", "l", "i", "s", "t", " ", "\"", "a", ")", "\"", " ", "1", ")", "\n", "(", "l", "i", "s",
      "t", " ", "\"", ")", "\"", " ", "1", ")">>

\*   y
\*   (1 2)
\*   ((\ (x) x) 1 2)
\*   (def 1 y)
\*   (quote)
\*   (+ 1 'a)
Errors ==
    <<"y", "\n", "(", "1", " ", "2", ")", "\n", "(", "(", "\\", " ", "(", "x", ")", " ", "x", ")",
      " ", "1", " ", "2", ")", "\n", "(", "d", "e", "f", " ", "1", " ", "y", ")", "\n", "(", "q",
      "u", "o", "t", "e", ")", "\n", "(", "+", " ", "1", " ", "'", "a", ")">>

\* Lists of the scripts have up to MaxLen elements.
MaxLen == 2

\* The i-th element (from 0) of the lists the scripts build.
Elem(i) == 5 + i

\*   (list 5 6 ...)  with n elements
RECURSIVE ElemsText(_, _)
ElemsText(n, i) ==
    IF i >= n THEN <<>> ELSE <<" ">> \o NatToChars(Elem(i)) \o ElemsText(n, i + 1)

ListText(n) == <<"(", "l", "i", "s", "t">> \o ElemsText(n, 0) \o <<")">>

\*   (lindex (list 5 6 ...) p)
Lindex(n, p) ==
    <<"(", "l", "i", "n", "d", "e", "x", " ">> \o ListText(n) \o <<" ">>
    \o RealToChars(p) \o <<")">>

\*   (def xs (list 5 6 ...))
\*   (def ys xs)
\*   (lset xs 99 p)
Lset(n, p) ==
    <<"(", "d", "e", "f", " ", "x", "s", " ">> \o ListText(n) \o <<")", "\n">>
    \o <<"(", "d", "e", "f", " ", "y", "s", " ", "x", "s", ")", "\n">>
    \o <<"(", "l", "s", "e", "t", " ", "x", "s", " ", "9", "9", " ">>
    \o RealToChars(p) \o <<")">>

\*   (list 1 2 ...)  with m elements
RECURSIVE NumsText(_, _)
NumsText(m, k) ==
    IF k > m THEN <<>> ELSE <<" ">> \o NatToChars(k) \o NumsText(m, k + 1)

\*   (def l (list 5 6 ...))          MaxLen + 1 elements
\*   (def r (list 1 2 ...))          m elements
\*   (lreplace l r start len stride) stride = 1 in the script stands for
\*                                   (lreplace l r start len)
Lreplace(m, start, len, stride) ==
    <<"(", "d", "e", "f", " ", "l", " ">> \o ListText(MaxLen + 1) \o <<")", "\n">>
    \o <<"(", "d", "e", "f", " ", "r", " ", "(", "l", "i", "s", "t">> \o NumsText(m, 1)
    \o <<")", ")", "\n">>
    \o <<"(", "l", "r", "e", "p", "l", "a", "c", "e", " ", "l", " ", "r", " ">>
    \o RealToChars(start) \o <<" ">> \o RealToChars(len)
    \o (IF stride # 1 THEN <<" ">> \o RealToChars(stride) ELSE <<>>) \o <<")">>

\* the replacements the scripts make
LreplaceArgs ==
    {<<m, start, len, stride>> :
        m \in 1..MaxLen, start \in 0..1, len \in MaxLen..(MaxLen + 1), stride \in 1..2}

\*   (def l (list 5 6 ...))          MaxLen + 1 elements
\*   (lrange l start len stride)     stride = 1 in the script stands for
\*                                   (lrange l start len)
Lrange(start, len, stride) ==
    <<"(", "d", "e", "f", " ", "l", " ">> \o ListText(MaxLen + 1) \o <<")", "\n">>
    \o <<"(", "l", "r", "a", "n", "g", "e", " ", "l", " ">>
    \o RealToChars(start) \o <<" ">> \o RealToChars(len)
    \o (IF stride # 1 THEN <<" ">> \o RealToChars(stride) ELSE <<>>) \o <<")">>

\* the ranges the scripts take
LrangeArgs ==
    {<<start, len, stride>> : start \in -1..1, len \in {-1, MaxLen}, stride \in -1..2}

\* Arrays of the scripts have up to MaxSize elements; the start, length and
\* stride of a slice go up to MaxSlice.
MaxSize == 3

MaxSlice == 2

\*   (array 0 1 ...)  with n elements
RECURSIVE IotaText(_, _)
IotaText(n, i) ==
    IF i >= n THEN <<>> ELSE <<" ">> \o NatToChars(i) \o IotaText(n, i + 1)

ArrayText(n) == <<"(", "a", "r", "r", "a", "y">> \o IotaText(n, 0) \o <<")">>

\*   (def a (array 0 1 ...))
\*   (slice a start len stride)      stride = 0 in the script stands for
\*                                   (slice a start len)
Slice(n, start, len, stride, withStride) ==
    <<"(", "d", "e", "f", " ", "a", " ">> \o ArrayText(n) \o <<")", "\n">>
    \o <<"(", "s", "l", "i", "c", "e", " ", "a", " ">> \o RealToChars(start)
    \o <<" ">> \o RealToChars(len)
    \o (IF withStride THEN <<" ">> \o RealToChars(stride) ELSE <<>>) \o <<")">>

\* the slices the scripts take: with every stride, and without a stride
SliceArgs ==
    {<<n, start, len, stride, TRUE>> :
        n \in 0..MaxSize, start \in -1..MaxSlice, len \in 0..MaxSlice, stride \in 0..MaxSlice}
    \cup {<<n, start, len, 1, FALSE>> :
        n \in 0..MaxSize, start \in -1..MaxSlice, len \in 0..MaxSlice}
    \cup {<<8, 1, 4, 2, TRUE>>}

\* the parameter names of the lambdas the scripts build
ParamNames == <<"a", "b", "c", "d", "e", "g", "h">>

\*   (a b ...)  with n names
RECURSIVE ParamsText(_, _)
ParamsText(n, i) ==
    IF i > n THEN <<>>
    ELSE (IF i > 1 THEN <<" ">> ELSE <<>>) \o <<ParamNames[i]>> \o ParamsText(n, i + 1)

\*   (def x 5)
\*   (def f (\ (a b ...) (= x 9) 7))     n parameters
\*   (f 5 6 ...)                         m arguments
\*   x
TooMany(n, m) ==
    <<"(", "d", "e", "f", " ", "x", " ", "5", ")", "\n">>
    \o <<"(", "d", "e", "f", " ", "f", " ", "(", "\\", " ", "(">> \o ParamsText(n, 1)
    \o <<")", " ", "(", "=", " ", "x", " ", "9", ")", " ", "7", ")", ")", "\n">>
    \o <<"(", "f">> \o ElemsText(m, 0) \o <<")", "\n", "x">>

\* the scripts that apply a lambda to more arguments than it has parameters
TooManyArgs == {<<n, m>> \in (0..MaxLen) \X (1..(MaxLen + 1)) : m > n}

\*   (def x 1        the input ends inside the list
OpenList == <<"(", "d", "e", "f", " ", "x", " ", "1">>

\*   x
\*   (def y (+ 1 2)  the input ends inside the outer list
OpenOuterList ==
    <<"x", "\n", "(", "d", "e", "f", " ", "y", " ", "(", "+", " ", "1", " ", "2", ")">>

\*   "ab             the input ends inside the string literal
OpenString == <<"\"", "a", "b">>

\*   (def s "ab      the input ends inside a string literal inside a list
OpenStringInList == <<"(", "d", "e", "f", " ", "s", " ", "\"", "a", "b">>

\*   (load "name")
LoadScript(name) ==
    <<"(", "l", "o", "a", "d", " ", "\"">> \o name \o <<"\"", ")">>

Scripts ==
    {LexicalScope(v1, v2) : v1 \in 1..MaxVal, v2 \in 1..MaxVal}
    \cup {PartialApp(a, b) : a \in 1..MaxArg, b \in 1..MaxArg}
    \cup {LoopIf(n) : n \in 0..MaxN} \cup {LoopBegin(n) : n \in 0..MaxN}
    \cup {LoopEval(n) : n \in 0..MaxN} \cup {LoopApply(n) : n \in 0..MaxN}
    \cup {Partial3, MacroRaw, MacroBody, SyncSchedule, SyncInLambda, AsyncSchedule,
          AsyncInLambda, WhileLoop, Errors}
    \cup {Lindex(n, p) : n \in 0..MaxLen, p \in -1..MaxLen}
    \cup {Lset(n, p) : n \in 1..MaxLen, p \in -1..MaxLen}
    \cup {Slice(q[1], q[2], q[3], q[4], q[5]) : q \in SliceArgs}
    \cup {CountLoop(n) : n \in 0..MaxN} \cup {ApplyTwice, AsyncError, SyncError, EvalOrder, ApplyQuoted, Rebind,
          LineFeeds, CloseString}
    \cup {Lreplace(q[1], q[2], q[3], q[4]) : q \in LreplaceArgs}
    \cup {Lrange(q[1], q[2], q[3]) : q \in LrangeArgs}
    \cup {TooMany(q[1], q[2]) : q \in TooManyArgs}
    \cup {OpenList, OpenOuterList, OpenString, OpenStringInList}
    \cup {LoadScript(name) : name \in FileNames \cup {<<"x">>}}

\* the thread that runs repl; its env is what make_env returned
Main == 1

Thread(state, task, env) ==
    [state |-> state, stack |-> <<>>, ret |-> NULL, task |-> task, env |-> env,
     reading |-> <<>>]

Event(t, ev, a, v, depth) == [t |-> t, ev |-> ev, a |-> a, v |-> v, depth |-> depth]

\* What repl prints for a form: the value (the Atom as it is then) or the
\* error.
Printed(h, v, err) ==
    [v |-> v, err |-> err, atom |-> IF v = NULL THEN make_atom ELSE h[v]]

Init ==
    /\ heap = make_env.h
    /\ envs = <<>>
    /\ last = NoOp
    /\ rt = NoRT
    /\ \E s \in Scripts : cin = Stream(s)
    /\ linenum = 0
    /\ threads = <<Thread("idle", NULL, make_env.v)>>
    /\ out = <<>>
    /\ aborted = FALSE
    /\ log = <<>>

Top(t) == threads[t].stack[Len(threads[t].stack)]

\* Thread t is in eval, at pc of its innermost activation.
At(t, pc) ==
    /\ ~aborted
    /\ threads[t].state = "run"
    /\ Len(threads[t].stack) > 0
    /\ Top(t).pc = pc

\* musil.h 773-774: what load prints for a form that threw
Diagnostic(fname, ln, err) ==
    [v |-> NULL, err |-> err, atom |-> make_atom, file |-> fname, line |-> ln]

\* musil.h 770-777: the innermost activation of a stack that is inside the
\* try block of load (0: none)
Catcher(stack) ==
    LET S == {i \in 1..Len(stack) : stack[i].pc = "load_eval"}
    IN  IF S = {} THEN 0 ELSE CHOOSE i \in S : \A j \in S : j <= i

\* The state after the innermost activation of thread t ran a segment with
\* outcome o.  A value returned to repl is printed; an exception unwinds to
\* the innermost catch: of load when the thread is inside one, else of repl
\* on the main thread; on a detached thread it is then uncaught.
Apply(t, o) ==
    LET d == Len(threads[t].stack)
        below == SubSeq(threads[t].stack, 1, d - 1)
    IN  /\ heap' = o.h
        /\ last' = IF o.ev = "partial"
                   THEN [op |-> "partial", sym |-> o.a.func, val |-> o.a.args,
                         env |-> at(heap[o.a.func], 2), ret |-> o.v, err |-> NoError,
                         pre |-> heap]
                   ELSE NoOp
        /\ CASE o.k = "call" ->
                  /\ threads' = [threads EXCEPT
                        ![t].stack = below \o <<o.a, Activation(o.node, o.env)>>,
                        ![t].ret = NULL]
                  /\ log' = Append(log, Event(t, "enter", Activation(o.node, o.env), NULL, d + 1))
                  /\ UNCHANGED <<out, aborted>>
             [] o.k = "stay" ->
                  /\ threads' = [threads EXCEPT ![t].stack = below \o <<o.a>>, ![t].ret = NULL]
                  /\ log' = IF o.ev = "" THEN log ELSE Append(log, Event(t, o.ev, o.a, NULL, d))
                  /\ UNCHANGED <<out, aborted>>
             [] o.k \in {"ret", "spawn"} ->
                  /\ threads' =
                        [threads EXCEPT
                            ![t].stack = below,
                            ![t].ret = IF d > 1 THEN o.v ELSE NULL,
                            ![t].state = IF d > 1 THEN "run"
                                         ELSE IF t = Main THEN "idle" ELSE "done"]
                        \o (IF o.k = "spawn" THEN <<Thread("sleep", o.node, o.env)>> ELSE <<>>)
                  /\ log' = log \o (IF o.k = "spawn" THEN <<Event(t, o.ev, o.a, NULL, d)>> ELSE <<>>)
                                \o <<Event(t, "exit", o.a, o.v, d)>>
                  /\ out' = IF d = 1 /\ t = Main THEN Append(out, Printed(o.h, o.v, NoError)) ELSE out
                  /\ UNCHANGED aborted
             [] o.k = "raise" ->
                  /\ log' = Append(log, Event(t, "raise", o.a, NULL, d))
                  /\ IF Catcher(below) # 0
                     THEN LET c == Catcher(below)
                          IN  /\ threads' = [threads EXCEPT
                                    ![t].stack = SubSeq(below, 1, c - 1)
                                                 \o <<[below[c] EXCEPT !.pc = "load_loop"]>>,
                                    ![t].ret = NULL]
                              /\ out' = Append(out, Diagnostic(below[c].fname,
                                                               below[c].linenum, o.err))
                              /\ UNCHANGED aborted
                     ELSE IF t = Main
                     THEN /\ threads' = [threads EXCEPT ![t].stack = <<>>, ![t].ret = NULL,
                                                        ![t].state = "idle"]
                          /\ out' = Append(out, Printed(o.h, NULL, o.err))
                          /\ UNCHANGED aborted
                     ELSE /\ aborted' = TRUE
                          /\ UNCHANGED <<threads, out>>
        /\ UNCHANGED <<envs, rt, cin, linenum>>

\* musil.h 871: read (in, linenum), one token at a step, then the call of
\* eval on the form read.  The model stops at the end of the input (repl
\* would go on reading empty tokens).
ReplRead ==
    /\ ~aborted
    /\ \/ threads[Main].state = "idle" /\ ~cin.eof
       \/ threads[Main].state = "read"
    /\ \E r \in {read_token(heap, cin, linenum, threads[Main].reading)} :
           /\ heap' = r.h
           /\ cin' = r.st
           /\ linenum' = r.ln
           /\ IF r.v = NULL
              THEN /\ threads' = [threads EXCEPT ![Main].state = "read",
                                                 ![Main].reading = r.stack]
                   /\ log' = log
              ELSE /\ threads' = [threads EXCEPT
                         ![Main].state = "run",
                         ![Main].reading = <<>>,
                         ![Main].stack = <<Activation(r.v, threads[Main].env)>>]
                   /\ log' = Append(log, Event(Main, "enter",
                                               Activation(r.v, threads[Main].env), NULL, 1))
    /\ last' = NoOp
    /\ UNCHANGED <<envs, rt, out, aborted>>

\* musil.h 181-183: the detached thread's sleep is over, it calls task ()
WorkerWake(t) ==
    /\ ~aborted
    /\ threads[t].state = "sleep"
    /\ threads' = [threads EXCEPT ![t].state = "run",
                                  ![t].stack = <<Activation(threads[t].task, threads[t].env)>>]
    /\ log' = Append(log, Event(t, "enter", Activation(threads[t].task, threads[t].env), NULL, 1))
    /\ last' = NoOp
    /\ UNCHANGED <<heap, envs, rt, cin, linenum, out, aborted>>

\* The step of thread t whose segment has the outcome o.  (The outcome is
\* taken from a set so that it is computed once.)
Run(t, o) == \E oo \in {o} : Apply(t, oo)

EvalStart(t) == At(t, "start") /\ Run(t, SegStart(heap, Top(t)))

EvalHead(t) ==
    /\ At(t, "head")
    /\ \E tcFirst \in BOOLEAN, garbage \in Uninitialised(heap) :
          Run(t, SegHead(heap, Top(t), threads[t].ret, tcFirst, garbage))

EvalArgs(t) == At(t, "args") /\ Run(t, SegArgs(heap, Top(t), threads[t].ret))

EvalDefVal(t) == At(t, "def_val") /\ Run(t, SegDefVal(heap, Top(t), threads[t].ret))

EvalDefPush(t) == At(t, "def_push") /\ Run(t, SegDefPush(heap, Top(t)))

EvalIfTest(t) == At(t, "if_test") /\ Run(t, SegIfTest(heap, Top(t), threads[t].ret))

EvalWhileTest(t) == At(t, "while_test") /\ Run(t, SegWhileTest(heap, Top(t), threads[t].ret))

EvalWhileBody(t) == At(t, "while_body") /\ Run(t, SegWhileBody(heap, Top(t), threads[t].ret))

EvalBegin(t) == At(t, "begin") /\ Run(t, SegBegin(heap, Top(t), threads[t].ret))

EvalSchedMsec(t) == At(t, "sched_msec") /\ Run(t, SegSchedMsec(heap, Top(t), threads[t].ret))

EvalSchedAsync(t) == At(t, "sched_async") /\ Run(t, SegSchedAsync(heap, Top(t), threads[t].ret))

EvalLaterSleep(t) == At(t, "later_sleep") /\ Run(t, SegLaterSleep(heap, Top(t)))

EvalSchedTask(t) == At(t, "sched_task") /\ Run(t, SegSchedTask(heap, Top(t), threads[t].ret))

EvalBody(t) == At(t, "body") /\ Run(t, SegBody(heap, Top(t), threads[t].ret))

EvalMacroExpand(t) == At(t, "macro_expand") /\ Run(t, SegMacroExpand(heap, Top(t), threads[t].ret))

EvalMacroEval(t) == At(t, "macro_eval") /\ Run(t, SegMacroEval(heap, Top(t), threads[t].ret))

EvalMacroLast(t) == At(t, "macro_last") /\ Run(t, SegMacroLast(heap, Top(t), threads[t].ret))

EvalLoad(t) == At(t, "load_loop") /\ Run(t, SegLoad(heap, Top(t)))

EvalLoadEval(t) == At(t, "load_eval") /\ Run(t, SegLoadEval(heap, Top(t), threads[t].ret))

\* The segment that thread t, which is in eval, runs next.
Segment(t) ==
    LET a == Top(t)
        ret == threads[t].ret
    IN  CASE a.pc = "start" -> SegStart(heap, a)
          [] a.pc = "head" -> SegHead(heap, a, ret, TRUE, Indeterminate)
          [] a.pc = "args" -> SegArgs(heap, a, ret)
          [] a.pc = "def_val" -> SegDefVal(heap, a, ret)
          [] a.pc = "def_push" -> SegDefPush(heap, a)
          [] a.pc = "if_test" -> SegIfTest(heap, a, ret)
          [] a.pc = "while_test" -> SegWhileTest(heap, a, ret)
          [] a.pc = "while_body" -> SegWhileBody(heap, a, ret)
          [] a.pc = "begin" -> SegBegin(heap, a, ret)
          [] a.pc = "sched_msec" -> SegSchedMsec(heap, a, ret)
          [] a.pc = "sched_async" -> SegSchedAsync(heap, a, ret)
          [] a.pc = "later_sleep" -> SegLaterSleep(heap, a)
          [] a.pc = "sched_task" -> SegSchedTask(heap, a, ret)
          [] a.pc = "body" -> SegBody(heap, a, ret)
          [] a.pc = "macro_expand" -> SegMacroExpand(heap, a, ret)
          [] a.pc = "macro_eval" -> SegMacroEval(heap, a, ret)
          [] a.pc = "macro_last" -> SegMacroLast(heap, a, ret)
          [] a.pc = "load_loop" -> SegLoad(heap, a)
          [] a.pc = "load_eval" -> SegLoadEval(heap, a, ret)

\* The Atoms a segment with outcome o has written a member of (the Atoms it
\* allocated are its own).
Written(h, o) == {x \in 1..Len(h) : o.h[x] # h[x]}

\* The frames and binding records that assoc (recurse) or extend reads when
\* it looks for node from env: each frame up to the one that binds node,
\* each binding record of these frames up to the first match.
RECURSIVE Scanned(_, _, _, _)
Scanned(h, node, env, recurse) ==
    LET i == FirstMatch(h, node, env)
        n == IF i # 0 THEN i ELSE Len(h[env].tail) - 1
        here == {env} \cup {at(h[env], k) : k \in 1..n}
    IN  IF i # 0 \/ ~recurse \/ is_nil(h, at(h[env], 0)) THEN here
        ELSE here \cup Scanned(h, node, at(h[env], 0), recurse)

\* The Atoms whose members the next segment of thread t reads: its node,
\* the value returned to it, the callable and the arguments, and what assoc
\* or extend scans.
Touched(t) ==
    LET a == Top(t)
        n == a.node
        elems == IF a.args = NULL THEN {}
                 ELSE {heap[a.args].tail[k] : k \in 1..Len(heap[a.args].tail)}
    IN  ({n, a.func, a.args, threads[t].ret} \ {NULL}) \cup elems
        \cup (IF a.pc = "start" /\ ~is_nil(heap, n) /\ heap[n].type = "SYMBOL"
                  /\ Len(heap[n].lexeme) > 0
               THEN Scanned(heap, n, a.env, TRUE) ELSE {})
        \cup (IF a.pc = "def_val"
               THEN Scanned(heap, at(heap[n], 1), a.env, heap[a.func].op = "fn_set")
               ELSE {})
        \cup (IF a.pc = "def_push" THEN {a.env} ELSE {})

\* musil.h 181-184: the detached thread calls eval on the Atoms the other
\* threads evaluate, and nothing orders the accesses of two threads.  When
\* thread t is about to write a member of an Atom that thread u is about to
\* read, the two accesses are a data race, whose behaviour is undefined:
\* either the accesses happen one after the other (the steps of t and u, in
\* either order), or the process crashes (this step).
Race(t, u) ==
    /\ t # u
    /\ ~aborted
    /\ threads[t].state = "run" /\ Len(threads[t].stack) > 0
    /\ threads[u].state = "run" /\ Len(threads[u].stack) > 0
    /\ Written(heap, Segment(t)) \cap Touched(u) # {}
    /\ aborted' = TRUE
    /\ UNCHANGED <<heap, envs, last, rt, cin, linenum, threads, out, log>>

Next ==
    \/ ReplRead
    \/ \E t \in 1..Len(threads) : WorkerWake(t)
    \/ \E t \in 1..Len(threads) : EvalStart(t)
    \/ \E t \in 1..Len(threads) : EvalHead(t)
    \/ \E t \in 1..Len(threads) : EvalArgs(t)
    \/ \E t \in 1..Len(threads) : EvalDefVal(t)
    \/ \E t \in 1..Len(threads) : EvalDefPush(t)
    \/ \E t \in 1..Len(threads) : EvalIfTest(t)
    \/ \E t \in 1..Len(threads) : EvalWhileTest(t)
    \/ \E t \in 1..Len(threads) : EvalWhileBody(t)
    \/ \E t \in 1..Len(threads) : EvalBegin(t)
    \/ \E t \in 1..Len(threads) : EvalSchedMsec(t)
    \/ \E t \in 1..Len(threads) : EvalSchedAsync(t)
    \/ \E t \in 1..Len(threads) : EvalLaterSleep(t)
    \/ \E t \in 1..Len(threads) : EvalSchedTask(t)
    \/ \E t \in 1..Len(threads) : EvalBody(t)
    \/ \E t \in 1..Len(threads) : EvalMacroExpand(t)
    \/ \E t \in 1..Len(threads) : EvalMacroEval(t)
    \/ \E t \in 1..Len(threads) : EvalMacroLast(t)
    \/ \E t \in 1..Len(threads) : EvalLoad(t)
    \/ \E t \in 1..Len(threads) : EvalLoadEval(t)
    \/ \E t \in 1..Len(threads), u \in 1..Len(threads) : Race(t, u)

Spec == Init /\ [][Next]_vars

\* A step of thread t: of repl and eval on the main thread, of the lambda
\* that Later detached (its sleep, then eval) on another.
ThreadStep(t) ==
    /\ t \in 1..Len(threads)
    /\ \/ t = Main /\ ReplRead
       \/ WorkerWake(t)
       \/ EvalStart(t) \/ EvalHead(t) \/ EvalArgs(t) \/ EvalDefVal(t)
       \/ EvalDefPush(t)
       \/ EvalIfTest(t) \/ EvalWhileTest(t) \/ EvalWhileBody(t) \/ EvalBegin(t)
       \/ EvalSchedMsec(t) \/ EvalSchedAsync(t) \/ EvalLaterSleep(t) \/ EvalSchedTask(t)
       \/ EvalBody(t) \/ EvalMacroExpand(t) \/ EvalMacroEval(t) \/ EvalMacroLast(t)
       \/ EvalLoad(t) \/ EvalLoadEval(t)

\* the most threads a run of the model has
MaxThreads == 2

\* Spec with the scheduling of the operating system: a thread that can run
\* is not left waiting for ever.
FairSpec == Spec /\ \A t \in 1..MaxThreads : WF_vars(ThreadStep(t))

\* eval_stack kept by a push at the entry of eval and a pop before each
\* return, without the guard: an exception leaves the frames on it.
RECURSIVE unguarded(_, _, _)
unguarded(t, k, st) ==
    IF k > Len(log) THEN st
    ELSE IF log[k].t = t /\ log[k].ev = "enter"
    THEN unguarded(t, k + 1, Append(st, log[k].a.node0))
    ELSE IF log[k].t = t /\ log[k].ev = "exit"
    THEN unguarded(t, k + 1, SubSeq(st, 1, Len(st) - 1))
    ELSE unguarded(t, k + 1, st)

eval_stack_unguarded(t) == unguarded(t, 1, <<>>)

\* eval_stack of thread t (thread_local): the node of every live activation
eval_stack(t) == [i \in 1..Len(threads[t].stack) |-> threads[t].stack[i].node0]

----------------------------------------------------------------------------
(* Properties of Spec *)

\* The events of thread t, in order.
ThreadLog(t) == SelectSeq(log, LAMBDA e : e.t = t)

\* The i-th thing repl printed is the number x.
PrintedNumber(i, x) ==
    /\ out[i].err = NoError
    /\ out[i].atom.type = "ARRAY"
    /\ out[i].atom.array = <<x>>

\* The lexemes of the atoms of a tail.
Lexemes(h, tl) == [i \in 1..Len(tl) |-> h[tl[i]].lexeme]

\* C1 (as the code has it): after (def x v1), (def f (\ () x)), (def x v2)
\* in the root environment, the call (f) returns v2, the value x has when f
\* is called: the second def overwrites the binding in the frame f captured.
C1_ClosureSeesRedefinition ==
    \A v1 \in 1..MaxVal, v2 \in 1..MaxVal :
        (cin.s = LexicalScope(v1, v2) /\ Len(out) >= 4) => PrintedNumber(4, v2)

\* (f) has returned, with x defined as 1 and then as 2.
C1_Witness ==
    /\ cin.s = LexicalScope(1, 2)
    /\ Len(out) >= 4
    /\ PrintedNumber(4, 2)

\* C1 as stated: after (def x 1), (def f (\ () x)), (def x 2), the call (f)
\* returns 1.
C1_ClosureSeesFirstValue ==
    (cin.s = LexicalScope(1, 2) /\ Len(out) >= 4) => PrintedNumber(4, 1)

\* C2: with f = (\ (x y) (* x y)), (f a b) and ((f a) b) both return a * b
\* and neither raises an error.
C2_PartialAgreesWithFull ==
    \A a \in 1..MaxArg, b \in 1..MaxArg :
        (cin.s = PartialApp(a, b) /\ Len(out) >= 3) =>
            /\ PrintedNumber(2, a * b)
            /\ PrintedNumber(3, a * b)

\* What C3 says of everything but the parameter list: the Lambda returned
\* for k < n arguments has the body of the original, its environment is a
\* new frame parented on the captured environment that binds p1..pk to the
\* arguments, and the original and its captured environment are unchanged.
PartialBodyAndEnv ==
    LET h0 == last.pre
        func == last.sym
        f == last.ret
        args == heap[last.val].tail
        ps == h0[at(h0[func], 0)].tail
        nenv == at(heap[f], 2)
    IN  /\ heap[f].type = h0[func].type
        /\ at(heap[f], 1) = at(h0[func], 1)
        /\ nenv > Len(h0)
        /\ Parent(heap, nenv) = at(h0[func], 2)
        /\ Bindings(heap, nenv) = [i \in 1..Len(args) |-> <<h0[ps[i]].lexeme, args[i]>>]
        /\ heap[func] = h0[func]
        /\ heap[at(h0[func], 2)] = h0[at(h0[func], 2)]
        /\ Bindings(heap, at(h0[func], 2)) = Bindings(h0, at(h0[func], 2))

\* C3: applying a lambda with parameters p1..pn to k < n arguments returns
\* a Lambda whose parameter list is p(k+1)..pn, with the same body, whose
\* captured environment is a new frame on the original captured environment
\* binding p1..pk to the arguments; the original is unchanged.
C3_PartialHasUnboundTail ==
    last.op = "partial" =>
        LET h0 == last.pre
            ps == h0[at(h0[last.sym], 0)].tail
            k == Len(heap[last.val].tail)
        IN  /\ Lexemes(heap, heap[at(heap[last.ret], 0)].tail)
                  = Lexemes(h0, SubSeq(ps, k + 1, Len(ps)))
            /\ PartialBodyAndEnv

\* What the code returns: the parameter list is the bound head p1..pk.
PartialHasBoundHead ==
    last.op = "partial" =>
        LET h0 == last.pre
            ps == h0[at(h0[last.sym], 0)].tail
            k == Len(heap[last.val].tail)
        IN  /\ Lexemes(heap, heap[at(heap[last.ret], 0)].tail) = Lexemes(h0, SubSeq(ps, 1, k))
            /\ PartialBodyAndEnv

C5_MacroArgsRaw ==
    /\ \A t \in 1..Len(threads) : \A i \in 1..Len(threads[t].stack) :
          LET a == threads[t].stack[i]
          IN  (a.pc \in {"args", "macro_expand", "macro_eval", "macro_last"}
               /\ heap[a.func].type = "MACRO") =>
                  /\ a.pc # "args"
                  /\ heap[a.args].tail = Tail(heap[a.node].tail)
                  /\ \A j \in 1..Len(heap[a.args].tail) :
                        Bindings(heap, a.env)[j]
                            = <<heap[at(heap[at(heap[a.func], 0)], j - 1)].lexeme,
                                heap[a.node].tail[j + 1]>>
    /\ (cin.s = MacroRaw /\ Len(out) >= 2) =>
          /\ out[2].err = NoError
          /\ out[2].atom.type = "LIST"
          /\ Lexemes(heap, out[2].atom.tail) = << <<"+">>, <<>>, <<>> >>
          /\ heap[out[2].atom.tail[2]].array = <<1>>
          /\ heap[out[2].atom.tail[3]].array = <<2>>

\* (m (+ 1 2)) has returned a list of three elements.
C5_Witness ==
    /\ cin.s = MacroRaw
    /\ Len(out) >= 2
    /\ out[2].atom.type = "LIST"
    /\ Len(out[2].atom.tail) = 3

\* C10: when a schedule form with async = false returns, it returns 1, and
\* on its thread the events since the async argument was evaluated are: the
\* timer is armed, one activation of eval is entered for the task in the
\* environment of the schedule form, everything that follows happens inside
\* that activation, it returns, and schedule returns.  The effects of the
\* task are in place by then.
C10_SyncSchedule ==
    /\ \A t \in 1..Len(threads) :
          LET L == ThreadLog(t)
          IN  \A k \in 1..Len(L) :
                (L[k].ev = "exit" /\ L[k].a.pc \in {"sched_task", "sched_async"}
                 /\ ~L[k].a.async) =>
                   /\ heap[L[k].v].type = "ARRAY" /\ heap[L[k].v].array = <<1>>
                   /\ \E j \in 3..(k - 1) :
                         /\ L[j - 2].ev = "exit"
                         /\ L[j - 2].depth = L[k].depth + 1
                         /\ L[j - 2].a.node0 = at(heap[L[k].a.node], 3)
                         /\ L[j - 1].ev = "arm_sync"
                         /\ L[j - 1].depth = L[k].depth
                         /\ L[j].ev = "enter"
                         /\ L[j].depth = L[k].depth + 1
                         /\ L[j].a.node0 = at(heap[L[k].a.node], 1)
                         /\ L[j].a.env = L[k].a.env
                         /\ \A i \in (j + 1)..(k - 2) :
                               /\ L[i].depth >= L[k].depth + 1
                               /\ L[i].depth = L[k].depth + 1 => L[i].ev \notin {"enter", "exit"}
                         /\ L[k - 1].ev = "exit"
                         /\ L[k - 1].depth = L[k].depth + 1
    /\ (cin.s = SyncSchedule /\ Len(out) >= 2) =>
          /\ PrintedNumber(2, 1)
          /\ heap[ValueIn(heap, threads[Main].env, <<"x">>)].array = <<1>>
    /\ (cin.s = SyncInLambda /\ Len(out) >= 2) => PrintedNumber(2, 6)

\* A schedule form with async = false, inside a lambda, has returned.
C10_Witness ==
    /\ cin.s = SyncInLambda
    /\ \E k \in 1..Len(log) :
          /\ log[k].ev = "exit"
          /\ log[k].a.pc = "sched_task"
          /\ ~log[k].a.async
          /\ log[k].a.env # threads[Main].env

\* The schedule forms armed with async = true, in the order of arming.
Armed == SelectSeq(log, LAMBDA e : e.ev = "arm_async")

\* The calls of eval that thread t made from outside eval (by repl, or by
\* the lambda that Later detached).
Entered(t) == SelectSeq(log, LAMBDA e : e.t = t /\ e.ev = "enter" /\ e.depth = 1)

\* C11, what holds in every state: a schedule form with async = true
\* returns 1 in the step that arms it, nothing of the task having run; each
\* armed form has a thread of its own, which holds the task of the form and
\* the environment the form was evaluated in, and calls eval at most once,
\* on that task in that environment, after its sleep.
C11_ArmedOnce ==
    /\ Len(threads) = 1 + Len(Armed)
    /\ \A j \in 1..Len(Armed) :
          LET w == threads[1 + j]
              E == Entered(1 + j)
          IN  /\ Armed[j].t # 1 + j
              /\ w.task = at(heap[Armed[j].a.node], 1)
              /\ w.env = Armed[j].a.env
              /\ Len(E) <= 1
              /\ (Len(E) = 0) <=> (w.state = "sleep")
              /\ Len(E) = 1 => E[1].a.node0 = w.task /\ E[1].a.env = w.env
    /\ \A k \in 1..Len(log) :
          log[k].ev = "arm_async" =>
             /\ k < Len(log)
             /\ log[k + 1].ev = "exit"
             /\ log[k + 1].t = log[k].t
             /\ log[k + 1].a = log[k].a
             /\ heap[log[k + 1].v].type = "ARRAY"
             /\ heap[log[k + 1].v].array = <<1>>
    /\ (cin.s = AsyncSchedule /\ Len(out) >= 2) => PrintedNumber(2, 1) /\ Len(Armed) = 1
    /\ (cin.s = AsyncInLambda /\ Len(out) >= 2) =>
          /\ Len(Armed) = 1
          /\ threads[2].env # threads[Main].env

\* C11, no cancellation: no step takes an armed task from its thread or
\* does anything with the thread but start it.
C11_NoCancel ==
    \A t \in 2..MaxThreads :
        (t <= Len(threads) /\ threads[t].state = "sleep") =>
            /\ t <= Len(threads')
            /\ threads'[t].task = threads[t].task
            /\ threads'[t].env = threads[t].env
            /\ threads'[t].state \in {"sleep", "run"}

\* C11: schedule with async = true returns 1 without waiting for the task;
\* the task is evaluated exactly once, later, on a thread of its own, in
\* the environment that was current when schedule was called; no step
\* cancels an armed task; and with every thread scheduled fairly, every
\* armed task is evaluated in the end, unless the process is killed first.
C11_AsyncSchedule ==
    /\ []C11_ArmedOnce
    /\ [][C11_NoCancel]_vars
    /\ \A t \in 2..MaxThreads :
          [](t <= Len(threads)
               => <>(aborted \/ (t <= Len(threads) /\ threads[t].state = "done")))

\* The schedule form (inside a lambda) has returned and the value of the
\* call was printed while the task has not started.
C11_Witness ==
    /\ cin.s = AsyncInLambda
    /\ Len(out) >= 2
    /\ Len(threads) = 2
    /\ threads[2].state = "sleep"

\* The threads that are inside eval.
InEval == {t \in 1..Len(threads) : Len(threads[t].stack) > 0}

\* C12: the evaluation of a task scheduled with async = true is never
\* interleaved with the evaluation of the caller or of another such task:
\* at most one thread is inside eval at any time.
C12_Serialized == Cardinality(InEval) <= 1

\* The forms of a file whose evaluation raises: they use an identifier that
\* nothing binds.
Bad(form) == form \in {<<"(", "n", "o", "p", "e", ")">>, <<"z", "z">>}

\* The calls of eval that load made for the file it has opened.
Loaded ==
    LET L == ThreadLog(Main)
        S == {i \in 1..Len(L) : L[i].ev = "load"}
    IN  IF S = {} THEN <<>>
        ELSE SelectSeq(SubSeq(L, (CHOOSE i \in S : TRUE) + 1, Len(L)),
                       LAMBDA e : e.ev \in {"enter", "exit"} /\ e.depth = 2)

\* The expression e is what read makes of the characters of form.
SameForm(e, form) ==
    \E p \in {read(heap, Stream(form), 0)} : atom_eq(p.h, e, p.v)

\* C13: when load has returned for a file with the forms f1..fn, eval was
\* called once for each of f1..fn, in file order and in the environment of
\* the load form, one diagnostic was printed for each form that raised, and
\* load returned the value of the last form that evaluated successfully;
\* the definitions made by the forms are in the environment.
C13_LoadContinues ==
    \A name \in FileNames :
      \A k \in 1..Len(log) :
        (cin.s = LoadScript(name) /\ log[k].ev = "exit" /\ log[k].depth = 1
         /\ log[k].a.pc = "load_loop") =>
            LET forms == Files(name).forms
                E == SelectSeq(Loaded, LAMBDA e : e.ev = "enter")
                X == SelectSeq(Loaded, LAMBDA e : e.ev = "exit")
                D == SelectSeq(out, LAMBDA d : d.err # NoError)
            IN  /\ Len(E) = Len(forms)
                /\ \A i \in 1..Len(E) :
                      /\ E[i].a.env = threads[Main].env
                      /\ SameForm(E[i].a.node0, forms[i])
                /\ Len(D) = Cardinality({i \in 1..Len(forms) : Bad(forms[i])})
                /\ \A i \in 1..Len(D) : D[i].file = name
                /\ Len(X) > 0 /\ log[k].v = X[Len(X)].v
                /\ heap[ValueIn(heap, threads[Main].env, <<"a">>)].array = <<1>>

\* C13 for the files in which a newline or a parenthesis ends the last form.
LoadContinues_terminated ==
    cin.s # LoadScript(<<"r">>) => C13_LoadContinues

\* C14: when the input ends inside a list or inside a string literal, read
\* fails: the unfinished form is not handed to eval, and what repl prints
\* for it is an error.  (The form before the unfinished one, in
\* OpenOuterList, is read and evaluated as usual.)
C14_UnfinishedFormFails ==
    LET finished == IF cin.s = OpenOuterList THEN 1 ELSE 0
    IN  cin.s \in {OpenList, OpenOuterList, OpenString, OpenStringInList} =>
           /\ Len(Entered(Main)) <= finished
           /\ \A i \in (finished + 1)..Len(out) : out[i].err # NoError

\* C15: (lindex L p) returns the element at position p, counted from 0,
\* when 0 <= p < length(L), and raises an error for every other p, also
\* when L is the empty list.
C15_LindexChecksIndex ==
    \A n \in 0..MaxLen, p \in -1..MaxLen :
       (cin.s = Lindex(n, p) /\ Len(out) >= 1) =>
          IF 0 <= p /\ p < n THEN PrintedNumber(1, Elem(p))
          ELSE out[1].err # NoError

\* C15 for the lists that have an element.
LindexChecksIndex_nonempty ==
    (\A p \in -1..MaxLen : cin.s # Lindex(0, p)) => C15_LindexChecksIndex

\* C16, the state after (lset xs 99 p) on a list of n >= 1 elements that
\* xs and ys are both bound to: xs and ys are still bound to the same list,
\* which has its n elements, 99 at position p and the old element at every
\* other position; the form returned that list when 0 <= p < n, and raised
\* `[lset] invalid index` (the list being as before) otherwise.
C16_SetInPlace ==
    \A n \in 1..MaxLen, p \in -1..MaxLen :
       (cin.s = Lset(n, p) /\ Len(out) >= 3) =>
          LET xs == ValueIn(heap, threads[Main].env, <<"x", "s">>)
              ys == ValueIn(heap, threads[Main].env, <<"y", "s">>)
          IN  /\ xs = ys
              /\ Len(heap[xs].tail) = n
              /\ \A i \in 0..(n - 1) :
                    heap[at(heap[xs], i)].array = <<IF i = p THEN 99 ELSE Elem(i)>>
              /\ IF 0 <= p /\ p < n
                 THEN out[3].err = NoError /\ out[3].v = xs
                 ELSE out[3].err = "[lset] invalid index"

\* The Atoms that can be reached from the Atoms of todo through tails.
RECURSIVE Reachable(_, _, _)
Reachable(h, todo, seen) ==
    IF todo = {} THEN seen
    ELSE LET x == CHOOSE y \in todo : TRUE
             succ == {h[x].tail[i] : i \in 1..Len(h[x].tail)} \ {NULL}
         IN  Reachable(h, (todo \ {x}) \cup (succ \ (seen \cup {x})), seen \cup {x})

\* C16, the steps: an Atom that the environment reaches and that changes
\* is the environment itself (def adds the bindings of xs and ys to it) or,
\* while the lset form with an index in range is evaluated, the list.
C16_NothingElse ==
    \A n \in 1..MaxLen, p \in -1..MaxLen :
       cin.s = Lset(n, p) =>
          \A x \in Reachable(heap, {threads[Main].env}, {}) :
             heap'[x] # heap[x] =>
                \/ x = threads[Main].env
                \/ /\ Len(out) = 2 /\ 0 <= p /\ p < n
                   /\ x = ValueIn(heap, threads[Main].env, <<"x", "s">>)

\* C16: lset changes the list in place and nothing else.
C16_Lset == []C16_SetInPlace /\ [][C16_NothingElse]_vars

\* lset has stored 99 in the middle of a list with two names.
C16_Witness ==
    /\ cin.s = Lset(MaxLen, MaxLen - 1)
    /\ Len(out) >= 3
    /\ out[3].err = NoError
    /\ heap[at(heap[ValueIn(heap, threads[Main].env, <<"y", "s">>)], MaxLen - 1)].array = <<99>>

\* The indices a bounded strided read of an array of n elements takes:
\* start, start + stride, ..., while the index is below n and fewer than
\* len have been taken.
Taken(n, start, len, stride) ==
    LET cnt == Cardinality({k \in 0..(len - 1) : start + k * stride < n})
    IN  [k \in 1..cnt |-> start + (k - 1) * stride]

\* C17: (slice a start len stride) on the array a = [0 1 ... n-1], whose
\* element at index i is i, returns the elements at the indices of the
\* bounded strided read (no stride given: stride 1) when start >= 0,
\* len >= 1 and stride >= 1 (as many elements, and the same ones: none of
\* them was read from outside a), and raises `[slice] invalid indexing`
\* otherwise; a is as it was.
C17_Slice ==
    \A q \in SliceArgs :
       (cin.s = Slice(q[1], q[2], q[3], q[4], q[5]) /\ Len(out) >= 2) =>
          /\ heap[ValueIn(heap, threads[Main].env, <<"a">>)].array = [k \in 1..q[1] |-> k - 1]
          /\ IF q[2] < 0 \/ q[3] < 1 \/ q[4] < 1
             THEN out[2].err = "[slice] invalid indexing"
             ELSE /\ out[2].err = NoError
                  /\ out[2].atom.type = "ARRAY"
                  /\ Len(out[2].atom.array) = Len(Taken(q[1], q[2], q[3], q[4]))
                  /\ out[2].atom.array = Taken(q[1], q[2], q[3], q[4])

\* The slice of the example, [1 3 5 7], has been printed.
C17_Witness ==
       /\ cin.s = Slice(8, 1, 4, 2, TRUE)
       /\ Len(out) >= 2
       /\ out[2].atom.array = <<1, 3, 5, 7>>
       /\ print(heap, out[2].v, FALSE) = <<"[", "1", " ", "3", " ", "5", " ", "7", "]", "\n">>

\* The evaluations of the body of the while form that repl read second:
\* the calls of eval on the third element of the form (kind "enter") and
\* their returns (kind "exit").
Bodies(kind) ==
    LET E == Entered(Main)
    IN  IF Len(E) < 2 THEN <<>>
        ELSE SelectSeq(ThreadLog(Main),
                       LAMBDA e : /\ e.ev = kind /\ e.depth = 2
                                  /\ e.a.node0 = at(heap[E[2].a.node0], 2))

\* C18, what holds in every state of the counting loop with bound N: the
\* body has been evaluated at most N times, and when the while form has
\* returned, exactly N times; i is then N, and the form returned what the
\* last evaluation of the body returned, or nil when there was none.
C18_Counts ==
    \A n \in 0..MaxN :
       cin.s = CountLoop(n) =>
          /\ Len(Bodies("enter")) <= n
          /\ Len(out) >= 2 =>
                /\ Len(Bodies("enter")) = n
                /\ Len(Bodies("exit")) = n
                /\ out[2].err = NoError
                /\ heap[ValueIn(heap, threads[Main].env, <<"i">>)].array = <<n>>
                /\ IF n = 0
                   THEN out[2].atom.type = "LIST" /\ out[2].atom.tail = <<>>
                   ELSE out[2].v = Bodies("exit")[n].v
          /\ Len(out) >= 3 => PrintedNumber(3, n)

\* C18: the counting loop evaluates its body N times, leaves i = N, returns
\* the last value of the body, and terminates.
C18_CountingLoop ==
    /\ []C18_Counts
    /\ \A n \in 0..MaxN : (cin.s = CountLoop(n)) ~> (Len(out) >= 3)

\* The loop with the largest bound has ended and i was printed.
C18_Witness ==
    /\ cin.s = CountLoop(MaxN)
    /\ Len(out) >= 3
    /\ Len(Bodies("exit")) = MaxN
    /\ PrintedNumber(3, MaxN)

\* C19: apply leaves its argument list as it was: after (apply f xs) the
\* list bound to xs has exactly the elements 1 and 2, and the second
\* (apply f xs) gives what the first gave, 3.
C19_ApplyKeepsList ==
    cin.s = ApplyTwice =>
       /\ Len(out) >= 3 =>
             LET xs == heap[ValueIn(heap, threads[Main].env, <<"x", "s">>)]
             IN  /\ PrintedNumber(3, 3)
                 /\ Len(xs.tail) = 2
                 /\ heap[xs.tail[1]].array = <<1>>
                 /\ heap[xs.tail[2]].array = <<2>>
       /\ Len(out) >= 5 => PrintedNumber(5, 3)

\* C20, what holds in every state when the lambda f with n parameters is
\* applied to m > n arguments: no expression of the body of f has been
\* handed to eval; the application raised `too many arguments`; x, which
\* the body would have set to 9, is 5 afterwards.
C20_BodyNotRun ==
    \A q \in TooManyArgs :
       (cin.s = TooMany(q[1], q[2]) /\ Len(out) >= 2) =>
          LET f == heap[ValueIn(heap, threads[Main].env, <<"f">>)]
              body == heap[at(f, 1)].tail
          IN  /\ f.type = "LAMBDA"
              /\ Len(heap[at(f, 0)].tail) = q[1]
              /\ at(f, 2) = threads[Main].env
              /\ \A k \in 1..Len(log) :
                    log[k].ev = "enter" => \A j \in 1..Len(body) : log[k].a.node0 # body[j]
              /\ Len(out) >= 3 => out[3].err = "[lambda/macro] too many arguments"
              /\ Len(out) >= 4 => PrintedNumber(4, 5)

\* C20, the steps: while the application is read and evaluated, no Atom that
\* the environment captured by f reaches changes (so that environment gets
\* no new binding and no binding of it gets a new value).
C20_EnvUntouched ==
    \A q \in TooManyArgs :
       (cin.s = TooMany(q[1], q[2]) /\ Len(out) = 2) =>
          \A x \in Reachable(heap, {at(heap[ValueIn(heap, threads[Main].env, <<"f">>)], 2)}, {}) :
             heap'[x] = heap[x]

\* C20: too many arguments to a lambda raise an error before anything of
\* the lambda runs.
C20_TooManyArguments == []C20_BodyNotRun /\ [][C20_EnvUntouched]_vars

\* A lambda with the most parameters got one argument too many, the error
\* was printed and x after it.
C20_Witness ==
    /\ cin.s = TooMany(MaxLen, MaxLen + 1)
    /\ Len(out) >= 4
    /\ out[3].err = "[lambda/macro] too many arguments"
    /\ \E k \in 1..Len(log) : log[k].ev = "raise" /\ log[k].a.pc = "args"

\* The errors raised so far on thread t.
Raised(t) == SelectSeq(log, LAMBDA e : e.t = t /\ e.ev = "raise")

\* C21: an error raised while a form is evaluated, on the thread of repl or
\* by a task on a thread that schedule detached, is reported and does not
\* end the process: after any raise the process is running, every error on
\* the thread of repl has been printed, and repl is reading or evaluating,
\* or has read the whole input.
C21_ReplSurvives ==
    (\E t \in 1..Len(threads) : Len(Raised(t)) > 0) =>
       /\ ~aborted
       /\ Len(Raised(Main)) = Len(SelectSeq(out, LAMBDA d : d.err # NoError))
       /\ threads[Main].state \in {"idle", "read", "run"}

\* C21 for the errors raised on the thread of repl (a task scheduled with
\* async = false included).
ReplSurvives_ownThread ==
    (\A t \in 2..Len(threads) : Len(Raised(t)) = 0) => C21_ReplSurvives

\* C22, the states: eval_stack of a thread is empty while the thread is
\* outside eval (repl between two forms, or reading one; a detached thread
\* before and after its task), also after a form that failed; between two
\* forms of load it ends with the frame of the form that called load.
C22_BetweenForms ==
    \A t \in 1..Len(threads) :
       /\ threads[t].state \in {"idle", "read", "sleep", "done"} => eval_stack(t) = <<>>
       /\ (threads[t].state = "run" /\ Len(threads[t].stack) > 0 /\ Top(t).pc = "load_loop") =>
             \E k \in 1..Len(log) :
                /\ log[k].t = t /\ log[k].ev = "load"
                /\ log[k].depth = Len(eval_stack(t))
                /\ log[k].a.node0 = eval_stack(t)[Len(eval_stack(t))]

\* C22, the steps: a step of eval pushes one frame (a call), or removes
\* frames from the end (a return, an error), or leaves eval_stack as it is;
\* the frames below are never touched, so that when a call is over, by a
\* return or by an error, eval_stack is what it was before the call.
C22_StackDiscipline ==
    \A t \in 1..Len(threads) :
       LET before == eval_stack(t)
           after == eval_stack(t)'
       IN  /\ Len(after) <= Len(before) + 1
           /\ \A i \in 1..Len(after) : i <= Len(before) => after[i] = before[i]

\* C22 as amended: eval_stack is balanced on every path; it is empty between
\* two forms of repl and is the stack of the calling form between two forms
\* of load.
C22_Balanced == []C22_BetweenForms /\ [][C22_StackDiscipline]_vars

\* A form of a loaded file has failed and load is about to read the next.
C22_Witness ==
    /\ cin.s = LoadScript(<<"q">>)
    /\ threads[Main].state = "run" /\ Len(threads[Main].stack) > 0
    /\ Top(Main).pc = "load_loop"
    /\ Len(out) = 1 /\ out[1].err # NoError
    /\ Len(eval_stack(Main)) = 1

\* C22 as stated: between two forms of repl or of load the eval_stack of the
\* calling thread is empty.
C22_EmptyBetweenForms ==
    \A t \in 1..Len(threads) :
       \/ threads[t].state \in {"idle", "read"}
       \/ threads[t].state = "run" /\ Len(threads[t].stack) > 0 /\ Top(t).pc = "load_loop"
       => eval_stack(t) = <<>>

\* The calls of eval, and their returns, that the j-th form repl read made
\* directly (the evaluations of its sub-expressions), in order.
SubEvals(j) ==
    LET L == ThreadLog(Main)
        I == {k \in 1..Len(L) : L[k].ev = "enter" /\ L[k].depth = 1}
        from == CHOOSE k \in I : Cardinality({m \in I : m <= k}) = j
        later == {k \in I : k > from}
        to == IF later = {} THEN Len(L) ELSE (CHOOSE k \in later : \A m \in later : k <= m) - 1
    IN  SelectSeq(SubSeq(L, from + 1, to),
                  LAMBDA e : e.depth = 2 /\ e.ev \in {"enter", "exit"})

\* The sub-evaluations of the j-th form, after the first `done` of them,
\* are those of its elements 0..(n - 1), one after the other: each is
\* entered after the one before has returned.
InOrder(j, n, done) ==
    LET form == heap[Entered(Main)[j].a.node0]
        E == SubEvals(j)
    IN  \A k \in 1..Len(E) :
           (done < k /\ k <= done + 2 * n) =>
              /\ E[k].ev = IF k % 2 = 1 THEN "enter" ELSE "exit"
              /\ E[k].a.node0 = at(form, (k - done - 1) \div 2)

\* C23: in the call of a lambda (form 3) and of an op (form 4) the head is
\* evaluated first and then the arguments from left to right, each to its
\* end before the next, and all of them before the body or the op runs; the
\* forms of begin (form 5) are evaluated in the same way after its head (the
\* loop of begin starts at element 0, the symbol begin, which it evaluates
\* once more), the last one after all the others.  The values show the
\* order of the assignments to x.
C23_LeftToRight ==
    cin.s = EvalOrder =>
       /\ Len(Entered(Main)) >= 3 => InOrder(3, 4, 0)
       /\ Len(Entered(Main)) >= 4 => InOrder(4, 3, 0)
       /\ Len(Entered(Main)) >= 5 =>
             /\ InOrder(5, 1, 0)
             /\ InOrder(5, 3, 2)
             /\ Len(SubEvals(5)) > 8 =>
                   SubEvals(5)[9].a.node0 = at(heap[at(heap[Entered(Main)[5].a.node0], 3)], 0)
       /\ Len(out) >= 3 =>
             /\ out[3].err = NoError
             /\ [i \in 1..Len(out[3].atom.tail) |-> heap[out[3].atom.tail[i]].array]
                   = << <<1>>, <<2>>, <<6>> >>
       /\ Len(out) >= 4 =>
             [i \in 1..Len(out[4].atom.tail) |-> heap[out[4].atom.tail[i]].array]
                = << <<2>>, <<3>> >>
       /\ Len(out) >= 5 => PrintedNumber(5, 10)

\* The three calls have been evaluated.
C23_Witness ==
    /\ cin.s = EvalOrder
    /\ Len(out) >= 5
    /\ Len(SubEvals(3)) >= 8
    /\ PrintedNumber(5, 10)

\* C24: (apply type (list 'x)) hands the Symbol x to type as it is: it
\* returns `symbol`, whether x is unbound (form 1) or bound to 5 (form 3).
C24_ApplyPassesElements ==
    cin.s = ApplyQuoted =>
       \A i \in {1, 3} :
          Len(out) >= i =>
             /\ out[i].err = NoError
             /\ out[i].atom.lexeme = <<"s", "y", "m", "b", "o", "l">>

\* The i-th thing repl printed is a list of the numbers xs.
PrintedList(i, xs) ==
    /\ out[i].err = NoError
    /\ out[i].atom.type = "LIST"
    /\ [k \in 1..Len(out[i].atom.tail) |-> heap[out[i].atom.tail[k]].array]
          = [k \in 1..Len(xs) |-> <<xs[k]>>]

\* The Op of quote bound to q acts as quote: (q (nope)) returns the list
\* (nope) and does not evaluate it; and a lambda bound to the symbol if is
\* applied as a lambda: (if 0 4) returns the list of its two arguments.
ByIdentity_rebound ==
    cin.s = Rebind =>
       /\ Len(out) >= 2 =>
             /\ out[2].err = NoError
             /\ print(heap, out[2].v, FALSE) = <<"(", "n", "o", "p", "e", ")">>
       /\ Len(out) >= 4 => PrintedList(4, <<0, 4>>)

\* C25: what a call does is selected by the value its head evaluates to:
\* the special form quote under another name, the lambda under the name of
\* a special form, and, a lambda being no special form, the lambda g made
\* afterwards: (g 0 4) returns the list of its two arguments.
C25_ByIdentity ==
    /\ ByIdentity_rebound
    /\ (cin.s = Rebind /\ Len(out) >= 6) => PrintedList(6, <<0, 4>>)

\* The LF characters among those the reader of the interpreter loop has
\* consumed.
LineFeeds_consumed == Cardinality({i \in 1..(cin.pos - 1) : cin.s[i] = "\n"})

\* C26: the line counter of the reader counts line feeds: whatever prefix of
\* the input the lexer has consumed, the counter was incremented once for
\* each LF consumed (as whitespace, at the end of a `;` comment or inside a
\* string literal) and for nothing else, a comment that the end of the input
\* ends included.
C26_CountsLineFeeds == linenum = LineFeeds_consumed

\* While the end of the input has not been met the counter is exact.
CountsLineFeeds_beforeEnd == ~cin.eof => linenum = LineFeeds_consumed

\* repl on the scripts of Spec and on AsyncDefine, where the task of a
\* detached thread and the caller define the same symbol in the root frame.
InitAsync ==
    /\ heap = make_env.h
    /\ envs = <<>>
    /\ last = NoOp
    /\ rt = NoRT
    /\ \E s \in Scripts \cup {AsyncDefine} : cin = Stream(s)
    /\ linenum = 0
    /\ threads = <<Thread("idle", NULL, make_env.v)>>
    /\ out = <<>>
    /\ aborted = FALSE
    /\ log = <<>>

SpecAsync == InitAsync /\ [][Next]_vars

\* The environment frames: those the evaluators run in, those the lambdas
\* and macros closed over, and their parents up to the root frame.
EnvFrames ==
    LET held == {threads[t].env : t \in 1..Len(threads)}
                \cup UNION {{threads[t].stack[k].env : k \in 1..Len(threads[t].stack)} :
                                t \in 1..Len(threads)}
                \cup {at(heap[x], 2) : x \in {y \in 1..Len(heap) : heap[y].type \in {"LAMBDA", "MACRO"}}}
    IN  UNION {{Chain(heap, e)[k] : k \in 1..Len(Chain(heap, e))} : e \in held \ {NULL}}

\* The bindings of frame e that bind the same symbol as its binding i.
SameSymbol(e, i) ==
    {j \in 1..(Len(heap[e].tail) - 1) :
        atom_eq(heap, at(heap[at(heap[e], i)], 0), at(heap[at(heap[e], j)], 0))}

\* C27: no environment frame holds two bindings of the same symbol, after
\* any sequence of def, =, applications and partial applications, and in
\* every interleaving of the evaluator with the tasks that schedule started
\* with async = true and that define symbols in the same frame.
C27_OneBindingPerSymbol ==
    \A e \in EnvFrames : \A i \in 1..(Len(heap[e].tail) - 1) : SameSymbol(e, i) = {i}

\* With one evaluator, no frame holds two bindings of a symbol.
OneBindingPerSymbol_oneThread ==
    Len(threads) = 1 => C27_OneBindingPerSymbol

\* The numbers that the list x holds.
ListVals(x) == [k \in 1..Len(heap[x].tail) |-> heap[heap[x].tail[k]].array[1]]

\* The positions start, start + stride, ... below start + len.
Positions(start, len, stride) ==
    {j \in start..(start + len - 1) : (j - start) % stride = 0}

\* The list l of the scripts with r[0], r[1], ... at these positions (0 where
\* r has no such element).
Replaced(m, start, len, stride) ==
    [k \in 1..(MaxLen + 1) |->
        IF k - 1 \in Positions(start, len, stride)
        THEN IF (k - 1 - start) \div stride < m THEN (k - 1 - start) \div stride + 1 ELSE 0
        ELSE Elem(k - 1)]

\* C28: lreplace is all or nothing.  Whatever the list l, the source list r
\* and start, len and stride, (lreplace l r start len stride) either writes
\* r[0], r[1], ... over every position start, start + stride, ... below
\* start + len of l and returns r, or leaves l as it was (returning nil when
\* it rejects the arguments); it never stops with an error after writing some
\* of the positions, and it changes neither the length of l nor r.
C28_AllOrNothing ==
    \A q \in LreplaceArgs :
       (cin.s = Lreplace(q[1], q[2], q[3], q[4]) /\ Len(out) >= 2) =>
          LET l == ValueIn(heap, threads[Main].env, <<"l">>)
              r == ValueIn(heap, threads[Main].env, <<"r">>)
              whole == /\ Positions(q[2], q[3], q[4]) \subseteq 0..MaxLen
                       /\ Cardinality(Positions(q[2], q[3], q[4])) <= q[1]
          IN  /\ ListVals(r) = [k \in 1..q[1] |-> k]
              /\ Len(out) = 2 => ListVals(l) = [k \in 1..(MaxLen + 1) |-> Elem(k - 1)]
              /\ Len(out) >= 3 =>
                    \/ /\ out[3].err = NoError /\ out[3].v = r
                       /\ ListVals(l) = Replaced(q[1], q[2], q[3], q[4])
                       /\ whole
                    \/ /\ ListVals(l) = [k \in 1..(MaxLen + 1) |-> Elem(k - 1)]
                       /\ out[3].err # NoError \/ is_nil(heap, out[3].v)

\* When lreplace returns r, every position was written; when it returns nil,
\* l is as it was; neither the length of l nor r ever changes.
AllOrNothing_returned ==
    \A q \in LreplaceArgs :
       (cin.s = Lreplace(q[1], q[2], q[3], q[4]) /\ Len(out) >= 3) =>
          LET l == ValueIn(heap, threads[Main].env, <<"l">>)
              r == ValueIn(heap, threads[Main].env, <<"r">>)
          IN  /\ ListVals(r) = [k \in 1..q[1] |-> k]
              /\ Len(heap[l].tail) = MaxLen + 1
              /\ (out[3].err = NoError /\ out[3].v = r) =>
                    ListVals(l) = Replaced(q[1], q[2], q[3], q[4])
              /\ (out[3].err = NoError /\ out[3].v # r) =>
                    /\ is_nil(heap, out[3].v)
                    /\ ListVals(l) = [k \in 1..(MaxLen + 1) |-> Elem(k - 1)]

\* The i-th value printed is a list of two elements: the String with this
\* content, and the number 1.
StringAndOne(i, content) ==
    /\ out[i].err = NoError
    /\ out[i].atom.type = "LIST"
    /\ Len(out[i].atom.tail) = 2
    /\ heap[out[i].atom.tail[1]].type = "STRING"
    /\ heap[out[i].atom.tail[1]].lexeme = content
    /\ heap[out[i].atom.tail[2]].array = <<1>>

\* C29: only the token `)` closes a list.  A string literal whose content is
\* the one character `)` is read, among the children of a list, as a String
\* element and does not end the list: (list ")" 1) is the list of that
\* String and 1.
C29_OnlyParenCloses ==
    (cin.s = CloseString /\ Len(out) >= 2) => StringAndOne(2, <<")">>)

\* A string literal with a `)` and another character is an element of the
\* list it is in.
OnlyParenCloses_longer ==
    (cin.s = CloseString /\ Len(out) >= 1) => StringAndOne(1, <<"a", ")">>)

\* What the second form of an lrange script did: it returned a fresh list
\* whose elements are elements of l, at increasing positions, and l is the
\* list it was.
RangeOf(l) ==
    LET nl == out[2].v
    IN  /\ out[2].err = NoError
        /\ nl # l /\ heap[nl].type = "LIST"
        /\ ListVals(l) = [k \in 1..(MaxLen + 1) |-> Elem(k - 1)]
        /\ Len(heap[nl].tail) <= MaxLen + 1
        /\ \A k \in 1..Len(heap[nl].tail) :
              /\ \E p \in 1..(MaxLen + 1) : heap[nl].tail[k] = heap[l].tail[p]
              /\ k > 1 => ListVals(nl)[k - 1] < ListVals(nl)[k]

\* C30: lrange terminates and stays in bounds for every input.  For every
\* start, len and stride (stride 0, a negative stride, a negative start or
\* len included), (lrange l start len stride) finishes, reads only the
\* positions 0 .. length(l) - 1 of l, returns a fresh list and leaves l
\* unchanged.
C30_LrangeTotal ==
    \A q \in LrangeArgs :
       (cin.s = Lrange(q[1], q[2], q[3]) /\ Len(out) >= 2) =>
          RangeOf(ValueIn(heap, threads[Main].env, <<"l">>))

\* With a stride of 1 or more it does, whatever start and len.
LrangeTotal_forward ==
    \A q \in LrangeArgs :
       (cin.s = Lrange(q[1], q[2], q[3]) /\ Len(out) >= 2 /\ q[3] >= 1) =>
          RangeOf(ValueIn(heap, threads[Main].env, <<"l">>))

\* What stops lrange otherwise is an exception: of at with a negative
\* stride, of the allocator, the list having grown without end, with the
\* stride 0.
LrangeTotal_stopped ==
    \A q \in LrangeArgs :
       (cin.s = Lrange(q[1], q[2], q[3]) /\ Len(out) >= 2 /\ out[2].err # NoError) =>
          \/ q[3] < 0 /\ out[2].err = "std::out_of_range"
          \/ q[3] = 0 /\ out[2].err = "std::bad_alloc"

====
